---- MODULE Spec2Model ----
(***************************************************************************)
(* Model of the HorizonPay rate service (src/script.js, the fallback-      *)
(* enabled server, and src/unnamed/part_002, the strict server): the       *)
(* pricing engine, the P2P analyzer, the market-data aggregator with its   *)
(* cache, the fetchers with their retries, and the transaction sessions    *)
(* with the payment requests that update them.                             *)
(*                                                                         *)
(* Numbers.  USDT prices (lowestInrRate, ngnRate, coinGeckoInr, ad prices) *)
(* are whole numbers.  A customer rate is kept in hundredths (the code     *)
(* rounds it to 2 decimals).  Quotients are exact rationals <<num, den>>;  *)
(* a division by zero keeps den = 0 and is compared the way IEEE-754       *)
(* compares +Infinity, -Infinity and NaN.  Math.random() is a draw k out   *)
(* of RandomSteps, standing for the value k / RandomSteps in [0, 1).       *)
(***************************************************************************)
EXTENDS Integers, Sequences, FiniteSets, TLC

VARIABLES
    prIn,       \* pricing: the arguments of the calculateCompetitiveRate or
                \* calculateFees call
    prOut,      \* pricing: the record it returned
    anIn,       \* analyzer: the listing payload handed to analyzeP2P
    anOut,      \* analyzer: its result, or the error it raised
    variant,    \* which server runs: "fallback" (script.js) or "strict" (part_002)
    now,        \* the clock, in seconds
    cache,      \* the NodeCache entry under "market_data", or None
    hits,       \* metrics.cache.hits
    misses,     \* metrics.cache.misses
    calls,      \* the getMarketData calls in flight, one per request context
    fetch,      \* a call of one of the three fetchers, attempt by attempt
    clock,      \* Date.now(), in milliseconds
    encryptionKey,  \* config.security.encryptionKey
    sessions,   \* the session store: the records under transactions/
    created,    \* what createTransactionSession returned, per session id,
                \* with the conversion the session was made for
    txMetrics,  \* metrics.transactions
    resp,       \* the last response sent, numbered
    pays,       \* payment requests in flight (verify-manual, webhook)
    request,    \* the body of the last POST /api/convert, or None
    dailyTotals,\* daily_totals/<identifier>/<today>, per identifier
    tasks       \* handlers followed from one await to the next

vars ==
    <<prIn, prOut, anIn, anOut, variant, now, cache, hits, misses, calls, fetch,
      clock, encryptionKey, sessions, created, txMetrics, resp, pays,
      request, dailyTotals, tasks>>
aggVars == <<variant, now, cache, hits, misses, calls>>
\* The transaction sessions and the payment requests
sessVars ==
    <<clock, encryptionKey, sessions, created, txMetrics, resp, pays,
      request, dailyTotals, tasks>>
\* The state outside the pricing engine, the analyzer and the aggregator
otherVars == <<fetch, sessVars>>
\* Everything the aggregator leaves alone
pureVars == <<prIn, prOut, anIn, anOut, otherVars>>

\* `null` / `undefined` of the source, for a number that is absent
Null == -1
\* NaN, the result of parseFloat / parseInt on text that is no number
NaN == -2
\* Infinity: the max of the last fee tier, parseFloat("1e999")
Infinity == -3

None == [kind |-> "none"]

\* No pricing call and no analysis has been made
PricingIdle ==
    /\ prIn = None
    /\ prOut = None

AnalyzeIdle ==
    /\ anIn = None
    /\ anOut = None

\* No fetcher has been called
FetchIdle == [pc |-> "idle"]

\* The ids uuidv4() hands out
SessionIds == {"s1"}

\* snapshot.exists() is false: nothing is stored under the id
NoSession == [kind |-> "absent"]

\* metrics.transactions as declared
NoTransactions == [total |-> 0, pending |-> 0, completed |-> 0, failed |-> 0]

NoResponse ==
    [n |-> 0, route |-> "none", sid |-> "none", apiKey |-> "none", code |-> 0,
     error |-> "none", sessionId |-> "none", userDetails |-> None, at |-> 0]

\* The two payment requests followed step by step
PayRequests == {"verify-manual", "webhook"}
NoPayments == [r \in PayRequests |-> [pc |-> "idle"]]

\* The identifiers daily totals are kept under: userDetails.email ||
\* userDetails.phone.  snapshot.val() || 0 reads a missing total as 0.
Identifiers == {"a@x.io", "08012345678"}
NoTotals == [identifier \in Identifiers |-> 0]

\* The POST /api/convert requests and the POST /api/payment/initialize
\* requests followed step by step, and what each is at: no request has
\* arrived.  poll is the page's pollPaymentStatus: not called yet.
\* cleanup is the last run of cleanupExpiredSessions: none yet.
Posters == {1, 2, 3}
Initiators == {1, 2}
NoTasks == [posts |-> [r \in Posters |-> [pc |-> "idle"]],
            inits |-> [r \in Initiators |-> [pc |-> "idle"]],
            poll |-> [pc |-> "idle"],
            cleanup |-> [pc |-> "idle"]]

\* A started server with an encryption key set, before any conversion
SessionsIdle ==
    /\ clock = 0
    /\ encryptionKey = "secret"
    /\ sessions = [id \in SessionIds |-> NoSession]
    /\ created = [id \in SessionIds |-> None]
    /\ txMetrics = NoTransactions
    /\ resp = NoResponse
    /\ pays = NoPayments
    /\ request = None
    /\ dailyTotals = NoTotals
    /\ tasks = NoTasks

OthersIdle ==
    /\ fetch = FetchIdle
    /\ SessionsIdle

(***************************************************************************)
(* config (src/script.js:83-152)                                           *)
(***************************************************************************)
minProfitMarginTenths == 8        \* config.pricing.minProfitMargin = 0.8 (%)
targetProfitMarginTenths == 25    \* config.pricing.targetProfitMargin = 2.5 (%)
discountRangeMinCents == 1585     \* config.pricing.discountRangeMin = 15.85
discountRangeMaxCents == 1598     \* config.pricing.discountRangeMax = 15.98
ngnMarkup == 20
fallbackNgnRate == 1650
maxRetries == 5                   \* config.api.maxRetries
retryDelay == 2000                \* config.api.retryDelay, in ms

\* Draws of Math.random(): k / RandomSteps for k in 0 .. RandomSteps - 1
RandomSteps == 4

(***************************************************************************)
(* Exact arithmetic                                                        *)
(***************************************************************************)
\* Math.round(p / q) for q > 0: the nearest integer, a tie going up
RoundDiv(p, q) == (2 * p + q) \div (2 * q)

\* ((finalRate - cost) / finalRate) * 100 with finalRate = cents / 100 and
\* cost = cost[1] / cost[2], as the rational <<num, den>> (den may be <= 0)
MarginOf(cents, cost) ==
    <<100 * (cents * cost[2] - 100 * cost[1]), cents * cost[2]>>

\* The JavaScript comparison  m < a / b  (b > 0) of a quotient m = <<num, den>>
RatLess(m, a, b) ==
    IF m[2] > 0 THEN m[1] * b < a * m[2]
    ELSE IF m[2] < 0 THEN m[1] * b > a * m[2]
    ELSE m[1] < 0                  \* -Infinity < x; +Infinity and NaN are not

\* The JavaScript comparison  m >= a / b  (b > 0)
RatAtLeast(m, a, b) ==
    IF m[2] > 0 THEN m[1] * b >= a * m[2]
    ELSE IF m[2] < 0 THEN m[1] * b <= a * m[2]
    ELSE m[1] > 0                  \* +Infinity >= x; -Infinity and NaN are not

(***************************************************************************)
(* Pricing engine, fallback-enabled server                                 *)
(***************************************************************************)
\* Step 2: the candidate rate, drawn from the competitive band and rounded
\* to 2 decimals: round((min + r * (max - min)) * 100), r = k / RandomSteps
PrimaryRateCents(k) ==
    RoundDiv(discountRangeMinCents * RandomSteps
               + k * (discountRangeMaxCents - discountRangeMinCents),
             RandomSteps)

\* CoinGecko rung: round((cost * (1 + target/100) + (r * 0.1 - 0.05)) * 100)
\* with r = k / RandomSteps and cost = n / d
FallbackRateCents(cost, k) ==
    RoundDiv((1000 + targetProfitMarginTenths) * cost[1] * RandomSteps
               + 100 * k * cost[2] - 50 * cost[2] * RandomSteps,
             10 * cost[2] * RandomSteps)

\* round(cost * (1 + min/100 + extra/1000) * 100): the forced minimum rate,
\* extra = 5 (0.005) on the CoinGecko rung and 10 (0.01) on the last rung
ForcedRateCents(cost, extra) ==
    RoundDiv((1000 + minProfitMarginTenths + extra) * cost[1], 10 * cost[2])

\* Mutant of belowMinimum: the rungs compare against the target margin
belowMinimum_target(margin) == RatLess(margin, targetProfitMarginTenths, 10)

\* profitMargin < config.pricing.minProfitMargin
belowMinimum(margin) == RatLess(margin, minProfitMarginTenths, 10)

calculateCompetitiveRate(lowestInrRate, ngnRate, coinGeckoInr, k1, k2) ==
    LET baseCostPerInr == <<ngnRate, lowestInrRate>>
        finalRate == PrimaryRateCents(k1)
        profitMargin == MarginOf(finalRate, baseCostPerInr)
    IN  IF belowMinimum(profitMargin)
        THEN IF coinGeckoInr # Null /\ coinGeckoInr > 0
             THEN LET coinGeckoBaseCost == <<ngnRate, coinGeckoInr>>
                      rate1 == FallbackRateCents(coinGeckoBaseCost, k2)
                      newProfitMargin == MarginOf(rate1, coinGeckoBaseCost)
                      rate2 == IF belowMinimum(newProfitMargin)
                               THEN ForcedRateCents(coinGeckoBaseCost, 5)
                               ELSE rate1
                  IN  [baseCost |-> coinGeckoBaseCost,
                       targetRate |-> rate2,
                       profitMargin |-> MarginOf(rate2, coinGeckoBaseCost),
                       usedCoinGeckoFallback |-> TRUE,
                       rateSource |-> "CoinGecko (Fallback)",
                       warning |-> FALSE]
             ELSE LET rate3 == ForcedRateCents(baseCostPerInr, 10)
                  IN  [baseCost |-> baseCostPerInr,
                       targetRate |-> rate3,
                       profitMargin |-> MarginOf(rate3, baseCostPerInr),
                       usedCoinGeckoFallback |-> FALSE,
                       rateSource |-> "P2P (Forced Minimum)",
                       warning |-> TRUE]
        ELSE [baseCost |-> baseCostPerInr,
              targetRate |-> finalRate,
              profitMargin |-> profitMargin,
              usedCoinGeckoFallback |-> FALSE,
              rateSource |-> "Binance P2P (Primary)",
              warning |-> FALSE]

(***************************************************************************)
(* P2P analyzer (identical in both servers)                                *)
(***************************************************************************)
\* config.filters; completion is compared in percent
strict == [minTrades |-> 300, minCompletion |-> 90, minQty |-> 500,
           minPrice |-> 70, maxPrice |-> 120]
relaxed == [minTrades |-> 100, minCompletion |-> 85, minQty |-> 100,
            minPrice |-> 70, maxPrice |-> 120]

\* An entry of data.data after parseFloat / parseInt of its fields:
\*   hasBlocks         item.adv and item.advertiser are both present
\*   price, qty        parseFloat(adv.price), parseFloat(adv.surplusAmount ...)
\*   monthOrderCount   parseInt(seller.monthOrderCount)
\*   monthFinishRate   parseFloat(seller.monthFinishRate), in hundredths:
\*                     95 is the fraction 0.95, 9500 is the percentage 95
\* The parsed ad keeps completion in hundredths of a percent.
parseAd(item) ==
    [price |-> item.price,
     qty |-> item.qty,
     trades |-> IF item.monthOrderCount = NaN THEN 0 ELSE item.monthOrderCount,
     completion |->
        LET c == IF item.monthFinishRate = NaN THEN 0 ELSE item.monthFinishRate
        IN  IF c > 0 /\ c <= 100 THEN c * 100 ELSE c,
     userNo |-> item.userNo]

\* The `continue` conditions of the parsing loop, negated
isValidAd(item) ==
    /\ item.hasBlocks
    /\ ~(item.price = NaN \/ (item.price # Infinity /\ item.price <= 0))
    /\ item.qty # NaN

passesFilter(a, f) ==
    /\ a.trades >= f.minTrades
    /\ a.completion >= f.minCompletion * 100
    /\ a.qty >= f.minQty
    /\ (a.price = Infinity \/ a.price >= f.minPrice)
    /\ (a.price # Infinity /\ a.price <= f.maxPrice)

\* Array.prototype.filter
filterAds(ads, f) == SelectSeq(ads, LAMBDA a : passesFilter(a, f))

\* Array.prototype.sort((a, b) => a.price - b.price): stable, ascending
RECURSIVE insertByPrice(_, _)
insertByPrice(a, s) ==
    IF s = <<>> THEN <<a>>
    ELSE IF s[Len(s)].price <= a.price THEN Append(s, a)
    ELSE Append(insertByPrice(a, SubSeq(s, 1, Len(s) - 1)), s[Len(s)])

\* Mutant of sortByPrice: the ads keep the order of the payload
sortByPrice_unsorted(s) == s

RECURSIVE sortByPrice(_)
sortByPrice(s) ==
    IF s = <<>> THEN <<>>
    ELSE insertByPrice(s[Len(s)], sortByPrice(SubSeq(s, 1, Len(s) - 1)))

\* sorted.slice(0, 5)
top5Of(sorted) == SubSeq(sorted, 1, IF Len(sorted) < 5 THEN Len(sorted) ELSE 5)

\* Array.prototype.reduce((sum, x) => sum + x, 0)
RECURSIVE sumOf(_)
sumOf(s) == IF s = <<>> THEN 0 ELSE s[1] + sumOf(Tail(s))

Failure(msg) == [ok |-> FALSE, error |-> msg]

\* An entry of result.topAds: the ad with its completion as the text
\* completion.toFixed(1) + "%", kept as the number of tenths it shows
topAdOf(a) ==
    [price |-> a.price, qty |-> a.qty, trades |-> a.trades,
     completion |-> RoundDiv(a.completion, 10), userNo |-> a.userNo]

\* The loop over data.data: the entries that parse, in order
parseAds(data) ==
    LET valid == SelectSeq(data, isValidAd)
    IN  [i \in 1 .. Len(valid) |-> parseAd(valid[i])]

\* Mutant of selectAds: the relaxed thresholds are applied from the start
selectAds_relaxedFirst(ads) == filterAds(ads, relaxed)

\* The strict filter, and the relaxed one when the strict one keeps nothing
selectAds(ads) ==
    LET filtered == filterAds(ads, strict)
    IN  IF Len(filtered) = 0 THEN filterAds(ads, relaxed) ELSE filtered

\* The averages are numbers that are not whole: they are kept in units of
\* 1/Grid, and a division gives the nearest such number, as a division of
\* doubles gives the nearest double.
Grid == 1000

\* simpleAvg: top5.reduce((sum, a) => sum + a.price, 0) / top5.length.
\* weightedAvg: top5.reduce((sum, a) => sum + (a.price * a.qty /
\* totalWeight), 0), where every term is divided, and so rounded, before it
\* is added.
averagesOf(top5) ==
    LET totalWeight == sumOf([i \in 1 .. Len(top5) |-> top5[i].qty])
    IN  [simpleAvg |->
             RoundDiv(Grid * sumOf([i \in 1 .. Len(top5) |-> top5[i].price]),
                      Len(top5)),
         weightedAvg |->
             sumOf([i \in 1 .. Len(top5) |->
                       RoundDiv(Grid * top5[i].price * top5[i].qty,
                                totalWeight)])]

\* Mutant of p2pResult: the averages are taken over every ad that passed
p2pResult_averagesAll(ads, filtered) ==
    LET top5 == top5Of(sortByPrice(filtered))
    IN  [ok |-> TRUE,
         totalAds |-> Len(ads),
         goodAds |-> Len(filtered),
         lowestRate |-> top5[1].price,
         simpleAvg |-> averagesOf(sortByPrice(filtered)).simpleAvg,
         weightedAvg |-> averagesOf(sortByPrice(filtered)).weightedAvg,
         topAds |-> [i \in 1 .. Len(top5) |-> topAdOf(top5[i])]]

\* Mutant of p2pResult: goodAds counts the strict-passing ads only
p2pResult_countsStrict(ads, filtered) ==
    LET top5 == top5Of(sortByPrice(filtered))
    IN  [ok |-> TRUE,
         totalAds |-> Len(ads),
         goodAds |-> Len(filterAds(ads, strict)),
         lowestRate |-> top5[1].price,
         simpleAvg |-> averagesOf(top5).simpleAvg,
         weightedAvg |-> averagesOf(top5).weightedAvg,
         topAds |-> [i \in 1 .. Len(top5) |-> topAdOf(top5[i])]]

\* The statistics over the ads that passed (at least one)
p2pResult(ads, filtered) ==
    LET top5 == top5Of(sortByPrice(filtered))
    IN  [ok |-> TRUE,
         totalAds |-> Len(ads),
         goodAds |-> Len(filtered),
         lowestRate |-> top5[1].price,
         simpleAvg |-> averagesOf(top5).simpleAvg,
         weightedAvg |-> averagesOf(top5).weightedAvg,
         topAds |-> [i \in 1 .. Len(top5) |-> topAdOf(top5[i])]]

\* data is the array data.data; a payload without one is the empty sequence
analyzeP2P(data) ==
    LET ads == parseAds(data)
        filtered == selectAds(ads)
    IN  IF Len(data) = 0 THEN Failure("Invalid P2P data for analysis")
        ELSE IF Len(ads) = 0 THEN Failure("No valid P2P ads found")
        ELSE IF Len(filtered) = 0 THEN Failure("No P2P ads meet quality criteria")
        ELSE p2pResult(ads, filtered)

\* An entry of the order book, already parsed field by field
Item(blocks, price, qty, orders, finish, userNo) ==
    [hasBlocks |-> blocks, price |-> price, qty |-> qty,
     monthOrderCount |-> orders, monthFinishRate |-> finish, userNo |-> userNo]

(***************************************************************************)
(* Market-data cache (NodeCache, useClones: false: get returns the stored  *)
(* object itself)                                                          *)
(***************************************************************************)
\* config.cache.ttl, in seconds
cacheTtl == IF variant = "fallback" THEN 1800 ELSE 300

\* Mutant of isLive: an entry never expires
isLive_forever(entry) == entry # None

\* An entry is live until the clock passes its expiry time
isLive(entry) == entry # None /\ ~(entry.expires < now)

\* cache.get(key): the stored value, or Null once the entry is gone or expired
cacheGet == IF isLive(cache) THEN cache.value ELSE None

\* cache.set(key, value): a fresh entry with the standard TTL
cacheSet(value) == [kind |-> "entry", value |-> value, expires |-> now + cacheTtl]

(***************************************************************************)
(* Upstream fetchers, as seen by Promise.allSettled                        *)
(***************************************************************************)
Pending == [status |-> "pending"]
Fulfilled(v) == [status |-> "fulfilled", value |-> v]
\* reason is the ExternalAPIError thrown: its message and, for a non-2xx
\* answer, details.body, the parsed body of the upstream answer
Rejected(msg) ==
    [status |-> "rejected",
     reason |-> [message |-> msg,
                 body |-> IF msg = "HTTP 500" THEN "upstream body"
                          ELSE "none"]]

Sources == <<"binanceSpot", "coinGecko", "binanceP2P">>

\* fetchBinanceSpot: a positive price, or a failure of the request
SpotOutcomes ==
    {Fulfilled(88), Rejected("Network request failed"), Rejected("Request timeout")}

\* fetchCoinGecko: {inr, ngn}, each null unless a positive number, or a failure
CoinGeckoOutcomes ==
    {Fulfilled([inr |-> 89, ngn |-> 1480]), Fulfilled([inr |-> 89, ngn |-> Null])}
        \cup {Rejected("Request timeout")}

GoodListing ==
    << Item(TRUE, 95, 800, 400, 9500, 3), Item(TRUE, 70, 500, 300, 90, 1) >>
PoorListing == << Item(TRUE, 69, 2000, 1500, 9900, 5) >>

\* fetchBinanceP2P: the payload (a non-empty array), or the failure of the
\* last retry
P2POutcomes ==
    {Fulfilled(GoodListing), Fulfilled(PoorListing), Rejected("Request timeout")}

(***************************************************************************)
(* getMarketData                                                           *)
(***************************************************************************)
IdleCall == [pc |-> "idle"]

\* Mutant of errorsOf: only the first failure is kept
errorsOf_firstOnly(results) ==
    IF results[1].status # "fulfilled"
    THEN <<[source |-> Sources[1], error |-> results[1].reason.message]>>
    ELSE IF results[2].status # "fulfilled"
    THEN <<[source |-> Sources[2], error |-> results[2].reason.message]>>
    ELSE IF results[3].status # "fulfilled"
    THEN <<[source |-> Sources[3], error |-> results[3].reason.message]>>
    ELSE <<>>

\* Mutant of errorsOf: an entry carries the upstream body when there is one
errorsOf_withBody(results) ==
    LET shown(reason) == IF reason.body # "none" THEN reason.body
                         ELSE reason.message
        entry(i) == IF results[i].status = "fulfilled" THEN <<>>
                    ELSE <<[source |-> Sources[i],
                            error |-> shown(results[i].reason)]>>
    IN  entry(1) \o entry(2) \o entry(3)

\* errors.push({source, error: reason.message}) for each rejected result, in
\* the order of the three `if` statements
errorsOf(results) ==
    LET entry(i) == IF results[i].status = "fulfilled" THEN <<>>
                    ELSE <<[source |-> Sources[i],
                            error |-> results[i].reason.message]>>
    IN  entry(1) \o entry(2) \o entry(3)

isFulfilled(r) == r.status = "fulfilled"

\* Mutant of hasNgn: an answer of the reference source is taken for a rate
hasNgn_anyAnswer(r) == isFulfilled(r)

\* coinGecko && coinGecko.ngn
hasNgn(r) == isFulfilled(r) /\ r.value.ngn # Null

\* Mutant of ngnRateOf: the markup is added to a fetched rate only
ngnRateOf_bareFallback(coinGecko) ==
    IF hasNgn(coinGecko) THEN coinGecko.value.ngn + ngnMarkup
    ELSE fallbackNgnRate

\* The USDT/NGN rate: the fetched one or the configured fallback, plus the
\* flat markup
ngnRateOf(coinGecko) ==
    (IF hasNgn(coinGecko) THEN coinGecko.value.ngn ELSE fallbackNgnRate)
        + ngnMarkup

\* errors.length > 0 ? errors : undefined, the errors field of a snapshot:
\* defined = FALSE stands for undefined
errorsField(errors) == [defined |-> Len(errors) > 0, list |-> errors]

\* The part of getMarketData after `await Promise.allSettled`: the value it
\* returns (ok) or the error it throws.  refresh numbers the object built.
\* The strict server's snapshot has no usedFallback field (it reads as
\* undefined, which is falsy); a snapshot is built there only with an NGN
\* rate, so the field is FALSE.
aggregate(results, refresh) ==
    LET errors == errorsOf(results)
        spot == IF isFulfilled(results[1]) THEN results[1].value ELSE Null
        coinGecko == results[2]
        p2pStats == analyzeP2P(results[3].value)
    IN  IF ~isFulfilled(results[3])
        THEN [ok |-> FALSE, error |-> "Critical: P2P data unavailable",
              errors |-> errors]
        ELSE IF variant = "strict" /\ ~hasNgn(coinGecko)
        THEN [ok |-> FALSE, error |-> "Critical: NGN rate unavailable",
              errors |-> errors]
        ELSE IF ~p2pStats.ok THEN p2pStats
        ELSE [ok |-> TRUE,
              obj |-> refresh,
              timestamp |-> now,
              rates |-> [binanceSpot |-> spot,
                         coinGeckoInr |-> IF isFulfilled(coinGecko)
                                          THEN coinGecko.value.inr ELSE Null,
                         coinGeckoNgn |-> IF isFulfilled(coinGecko)
                                          THEN coinGecko.value.ngn ELSE Null,
                         ngnRateWithMarkup |-> ngnRateOf(coinGecko),
                         p2pLowest |-> p2pStats.lowestRate,
                         usedFallback |-> ~hasNgn(coinGecko)],
              p2p |-> p2pStats,
              errors |-> errorsField(errors)]

\* Mutant of cacheAfter: whatever the call ends with is stored
cacheAfter_always(out) == cacheSet(out)

\* Mutant of cacheAfter: a refresh that fails empties the cache
cacheAfter_clearOnFailure(out) == IF out.ok THEN cacheSet(out) ELSE None

\* cache.set sits after every throw: only a snapshot is stored
cacheAfter(out) == IF out.ok THEN cacheSet(out) ELSE cache

\* The routes that call getMarketData, and the useCache argument each passes
Routes == {"rates", "convert", "ready"}
useCacheOf(route) == route # "ready" \/ variant = "strict"

Callers == {1, 2}
MaxTicks == 4
MaxMisses == 3
MaxHits == 2

AggregatorIdle ==
    /\ variant = "fallback"
    /\ now = 0
    /\ cache = None
    /\ hits = 0
    /\ misses = 0
    /\ calls = [c \in Callers |-> IdleCall]

Init ==
    /\ PricingIdle
    /\ AnalyzeIdle
    /\ OthersIdle
    /\ variant \in {"fallback", "strict"}
    /\ now = 0
    /\ cache = None
    /\ hits = 0
    /\ misses = 0
    /\ calls = [c \in Callers |-> IdleCall]

\* Mutant of GetMarketDataHit: a hit restarts the TTL of the entry
GetMarketDataHit_touch(c, route) ==
    /\ calls[c].pc = "idle"
    /\ useCacheOf(route)
    /\ cacheGet # None
    /\ hits < MaxHits
    /\ hits' = hits + 1
    /\ cache' = cacheSet(cacheGet)
    /\ calls' = [calls EXCEPT ![c] =
                    [pc |-> "returned", route |-> route,
                     started |-> {}, result |-> cacheGet]]
    /\ UNCHANGED <<variant, now, misses>>
    /\ UNCHANGED pureVars

\* getMarketData(useCache) finds the snapshot in the cache and returns it
GetMarketDataHit(c, route) ==
    /\ calls[c].pc = "idle"
    /\ useCacheOf(route)
    /\ cacheGet # None
    /\ hits < MaxHits
    /\ hits' = hits + 1
    /\ calls' = [calls EXCEPT ![c] =
                    [pc |-> "returned", route |-> route,
                     started |-> {}, result |-> cacheGet]]
    /\ UNCHANGED <<variant, now, cache, misses>>
    /\ UNCHANGED pureVars

\* getMarketData(useCache) bypasses the cache or finds nothing in it (get
\* drops an expired entry), and starts the three fetches
GetMarketDataMiss(c, route) ==
    /\ calls[c].pc = "idle"
    /\ ~(useCacheOf(route) /\ cacheGet # None)
    /\ misses < MaxMisses
    /\ misses' = misses + 1
    /\ cache' = IF useCacheOf(route) THEN None ELSE cache
    /\ calls' = [calls EXCEPT ![c] =
                    [pc |-> "fetching", route |-> route,
                     started |-> {Sources[i] : i \in 1 .. 3},
                     refresh |-> misses + 1,
                     results |-> <<Pending, Pending, Pending>>]]
    /\ UNCHANGED <<variant, now, hits>>
    /\ UNCHANGED pureVars

\* One of the three promises settles
Settle(c, i, outcome) ==
    /\ calls[c].pc = "fetching"
    /\ calls[c].results[i] = Pending
    /\ calls' = [calls EXCEPT ![c].results[i] = outcome]
    /\ UNCHANGED <<variant, now, cache, hits, misses>>
    /\ UNCHANGED pureVars

SpotSettles(c) == \E o \in SpotOutcomes : Settle(c, 1, o)
CoinGeckoSettles(c) == \E o \in CoinGeckoOutcomes : Settle(c, 2, o)
P2PSettles(c) == \E o \in P2POutcomes : Settle(c, 3, o)

\* Promise.allSettled resolves: the rest of getMarketData runs
Aggregate(c) ==
    /\ calls[c].pc = "fetching"
    /\ \A i \in 1 .. 3 : calls[c].results[i] # Pending
    /\ LET out == aggregate(calls[c].results, calls[c].refresh)
       IN  /\ cache' = cacheAfter(out)
           /\ calls' = [calls EXCEPT ![c] =
                           [pc |-> IF out.ok THEN "returned" ELSE "failed",
                            route |-> calls[c].route,
                            started |-> calls[c].started,
                            results |-> calls[c].results,
                            result |-> out]]
    /\ UNCHANGED <<variant, now, hits, misses>>
    /\ UNCHANGED pureVars

\* The route answers and the request is over
Respond(c) ==
    /\ calls[c].pc \in {"returned", "failed"}
    /\ calls' = [calls EXCEPT ![c] = IdleCall]
    /\ UNCHANGED <<variant, now, cache, hits, misses>>
    /\ UNCHANGED pureVars

\* Time passes, half a TTL window at a time
Tick ==
    /\ now < MaxTicks * (cacheTtl \div 2)
    /\ now' = now + (cacheTtl \div 2)
    /\ UNCHANGED <<variant, cache, hits, misses, calls>>
    /\ UNCHANGED pureVars

\* NodeCache's periodic check (checkperiod) drops an expired entry
CacheExpire ==
    /\ cache # None
    /\ ~isLive(cache)
    /\ cache' = None
    /\ UNCHANGED <<variant, now, hits, misses, calls>>
    /\ UNCHANGED pureVars

\* POST /api/admin/cache/clear with the admin key: cache.flushAll()
CacheClear ==
    /\ cache # None
    /\ cache' = None
    /\ UNCHANGED <<variant, now, hits, misses, calls>>
    /\ UNCHANGED pureVars

\* Spec serves one request after the other, in the context of caller 1
Serial == {1}

Next ==
    \/ \E c \in Serial, route \in Routes : GetMarketDataHit(c, route)
    \/ \E c \in Serial, route \in Routes : GetMarketDataMiss(c, route)
    \/ \E c \in Serial : SpotSettles(c)
    \/ \E c \in Serial : CoinGeckoSettles(c)
    \/ \E c \in Serial : P2PSettles(c)
    \/ \E c \in Serial : Aggregate(c)
    \/ \E c \in Serial : Respond(c)
    \/ Tick
    \/ CacheExpire
    \/ CacheClear

Spec == Init /\ [][Next]_vars

(***************************************************************************)
(* SpecRace: two request contexts call getMarketData at the same time.     *)
(* The calls interleave at their await points: the cache lookup, the       *)
(* settling of the fetches and the code after Promise.allSettled.          *)
(***************************************************************************)
RaceMisses == 2
RaceRoutes == {"rates", "ready"}

\* The three fetches of a call run to their end.  They touch nothing the
\* other call reads, so their settling is taken as one step here; the spot
\* fetch, whose failure only adds an error entry, succeeds or times out.
RaceSpotOutcomes == {Fulfilled(88), Rejected("Request timeout")}

FetchesSettle(c) ==
    /\ calls[c].pc = "fetching"
    /\ calls[c].results = <<Pending, Pending, Pending>>
    /\ \E spot \in RaceSpotOutcomes, coinGecko \in CoinGeckoOutcomes,
          p2p \in P2POutcomes :
          calls' = [calls EXCEPT ![c].results = <<spot, coinGecko, p2p>>]
    /\ UNCHANGED <<variant, now, cache, hits, misses>>
    /\ UNCHANGED pureVars

NextRace ==
    \/ \E c \in Callers, route \in RaceRoutes : GetMarketDataHit(c, route)
    \/ \E c \in Callers, route \in RaceRoutes :
          misses < RaceMisses /\ GetMarketDataMiss(c, route)
    \/ \E c \in Callers : FetchesSettle(c)
    \/ \E c \in Callers : Aggregate(c)
    \/ \E c \in Callers : Respond(c)
    \/ CacheClear

SpecRace == Init /\ [][NextRace]_vars

(***************************************************************************)
(* SpecRetry: one call of a fetcher, request attempt by request attempt.   *)
(* fetch.log lists the outcome of every httpRequest made by the call,      *)
(* fetch.delays the backoff waits.                                         *)
(***************************************************************************)
Fetchers == {"fetchBinanceSpot", "fetchCoinGecko", "fetchBinanceP2P"}

\* httpRequest rejects: network error, timeout, non-2xx status
HttpErrors == {"Network request failed", "Request timeout", "HTTP 500"}

\* The bodies a 2xx response can carry, per fetcher
SpotBodies == {[price |-> 88], [price |-> 0], [price |-> NaN], [price |-> Null]}
CoinGeckoBodies ==
    {[tether |-> TRUE, inr |-> 89, ngn |-> 1480],
     [tether |-> TRUE, inr |-> NaN, ngn |-> Null],
     [tether |-> FALSE, inr |-> Null, ngn |-> Null]}
P2PBodies == {GoodListing, PoorListing, <<>>}

BodiesOf(fn) ==
    IF fn = "fetchBinanceSpot" THEN SpotBodies
    ELSE IF fn = "fetchCoinGecko" THEN CoinGeckoBodies
    ELSE P2PBodies

\* What each fetcher makes of the body of a successful request
checkSpot(data) ==
    IF data.price = Null THEN Rejected("Invalid Binance Spot response")
    ELSE IF data.price = NaN \/ data.price <= 0
    THEN Rejected("Invalid price in Binance Spot response")
    ELSE Fulfilled(data.price)

positiveOrNull(x) == IF x # Null /\ x # NaN /\ x > 0 THEN x ELSE Null

checkCoinGecko(data) ==
    IF ~data.tether THEN Rejected("Invalid CoinGecko response")
    ELSE Fulfilled([inr |-> positiveOrNull(data.inr),
                    ngn |-> positiveOrNull(data.ngn)])

checkP2P(data) ==
    IF Len(data) = 0 THEN Rejected("No P2P data available")
    ELSE Fulfilled(data)

checkBody(fn, data) ==
    IF fn = "fetchBinanceSpot" THEN checkSpot(data)
    ELSE IF fn = "fetchCoinGecko" THEN checkCoinGecko(data)
    ELSE checkP2P(data)

\* Only fetchBinanceP2P wraps its request in retryableRequest
isRetried(fn) == fn = "fetchBinanceP2P"

\* Mutant of isLastAttempt: the last attempt is not recognised
isLastAttempt_never(i) == FALSE

\* i === retries - 1
isLastAttempt(i) == i = maxRetries - 1

\* Mutant of backoffDelay: the wait grows by the base delay each time
backoffDelay_linear(i) == retryDelay * (i + 1)

\* delay * Math.pow(2, i)
backoffDelay(i) == retryDelay * 2 ^ i

FetchStart(fn) ==
    /\ fetch.pc = "idle"
    /\ fetch' = [pc |-> "request", fn |-> fn, i |-> 0, log |-> <<>>,
                 delays |-> <<>>]
    /\ UNCHANGED <<prIn, prOut, anIn, anOut>>
    /\ UNCHANGED aggVars
    /\ UNCHANGED sessVars

\* httpRequest resolves: the fetcher checks the body and returns or throws
HttpResolves ==
    /\ fetch.pc = "request"
    /\ \E data \in BodiesOf(fetch.fn) :
          fetch' = [pc |-> "done", fn |-> fetch.fn, i |-> fetch.i,
                    log |-> Append(fetch.log, Fulfilled(data)),
                    delays |-> fetch.delays,
                    result |-> checkBody(fetch.fn, data)]
    /\ UNCHANGED <<prIn, prOut, anIn, anOut>>
    /\ UNCHANGED aggVars
    /\ UNCHANGED sessVars

\* httpRequest rejects: the fetcher rethrows, or retryableRequest backs off
HttpRejects ==
    /\ fetch.pc = "request"
    /\ \E err \in HttpErrors :
          IF isRetried(fetch.fn) /\ ~isLastAttempt(fetch.i)
          THEN fetch' = [fetch EXCEPT
                            !.pc = "backoff",
                            !.log = Append(fetch.log, Rejected(err)),
                            !.delays = Append(fetch.delays, backoffDelay(fetch.i))]
          ELSE fetch' = [pc |-> "done", fn |-> fetch.fn, i |-> fetch.i,
                         log |-> Append(fetch.log, Rejected(err)),
                         delays |-> fetch.delays,
                         result |-> Rejected(err)]
    /\ UNCHANGED <<prIn, prOut, anIn, anOut>>
    /\ UNCHANGED aggVars
    /\ UNCHANGED sessVars

\* The backoff timer fires: i++, and the loop goes on while i < retries;
\* past the loop retryableRequest returns undefined, which fetchBinanceP2P
\* takes for a missing payload
BackoffEnds ==
    /\ fetch.pc = "backoff"
    /\ IF fetch.i + 1 < maxRetries
       THEN fetch' = [fetch EXCEPT !.pc = "request", !.i = fetch.i + 1]
       ELSE fetch' = [pc |-> "done", fn |-> fetch.fn, i |-> fetch.i + 1,
                      log |-> fetch.log, delays |-> fetch.delays,
                      result |-> Rejected("No P2P data available")]
    /\ UNCHANGED <<prIn, prOut, anIn, anOut>>
    /\ UNCHANGED aggVars
    /\ UNCHANGED sessVars

\* The answer to a request whose getMarketData had this fetcher end as it
\* did and the other two succeed: the error handler's body for the
\* ExternalAPIError thrown (details are {} when analyzeP2P threw it), or the
\* warnings of a 200
Answer ==
    /\ fetch.pc = "done"
    /\ LET sample == <<Fulfilled(88), Fulfilled([inr |-> 89, ngn |-> 1480]),
                       Fulfilled(GoodListing)>>
           at == IF fetch.fn = "fetchBinanceSpot" THEN 1
                 ELSE IF fetch.fn = "fetchCoinGecko" THEN 2 ELSE 3
           out == aggregate([sample EXCEPT ![at] = fetch.result], misses + 1)
       IN  fetch' =
              [pc |-> "answered", fn |-> fetch.fn, i |-> fetch.i,
               log |-> fetch.log, delays |-> fetch.delays,
               result |-> fetch.result,
               response |->
                  IF out.ok
                  THEN [code |-> 200, error |-> "none",
                        type |-> "none", errors |-> out.errors.list,
                        recommendation |-> "none"]
                  ELSE [code |-> 503, error |-> out.error,
                        type |-> "external_api_error",
                        errors |-> IF "errors" \in DOMAIN out
                                   THEN out.errors ELSE <<>>,
                        recommendation |->
                            IF "errors" \in DOMAIN out
                            THEN "Try again in a few moments" ELSE "none"]]
    /\ UNCHANGED <<prIn, prOut, anIn, anOut>>
    /\ UNCHANGED aggVars
    /\ UNCHANGED sessVars

InitRetry ==
    /\ PricingIdle
    /\ AnalyzeIdle
    /\ AggregatorIdle
    /\ OthersIdle

\* Next to the fetcher call followed: requests that start an aggregation,
\* and the spot and reference fetches of the first settling
NextRetry ==
    \/ \E fn \in Fetchers : FetchStart(fn)
    \/ HttpResolves
    \/ HttpRejects
    \/ BackoffEnds
    \/ Answer
    \/ \E c \in Callers : GetMarketDataMiss(c, "rates")
    \/ \E c \in Serial : SpotSettles(c)
    \/ \E c \in Serial : CoinGeckoSettles(c)

SpecRetry == InitRetry /\ [][NextRetry]_vars

(***************************************************************************)
(* SpecPricing: one call of calculateCompetitiveRate on positive inputs    *)
(***************************************************************************)
\* lowest qualified P2P price (the filters keep it within 70 .. 120)
InrRates == {70, 90, 100, 120}
\* USDT/NGN rate with markup
NgnRates == {1420, 1470, 1670, 1920}
\* CoinGecko USDT/INR rate, or absent
CoinGeckoInrs == {Null, 88, 100, 106, 5060}

InitPricing ==
    /\ PricingIdle
    /\ AnalyzeIdle
    /\ AggregatorIdle
    /\ OthersIdle

RateCall ==
    /\ prIn = None
    /\ \E l \in InrRates, n \in NgnRates, c \in CoinGeckoInrs,
          k1 \in 0 .. RandomSteps - 1, k2 \in 0 .. RandomSteps - 1 :
          /\ prIn' = [kind |-> "call", lowestInrRate |-> l, ngnRate |-> n,
                      coinGeckoInr |-> c, k1 |-> k1, k2 |-> k2]
          /\ prOut' = calculateCompetitiveRate(l, n, c, k1, k2)
    /\ UNCHANGED <<anIn, anOut>>
    /\ UNCHANGED aggVars
    /\ UNCHANGED otherVars

NextPricing == RateCall

SpecPricing == InitPricing /\ [][NextPricing]_vars

(***************************************************************************)
(* SpecAnalyze: one call of analyzeP2P on a listing payload.  The payload  *)
(* is what fetchBinanceP2P hands on: a non-empty array (line 547).         *)
(***************************************************************************)

\* Entries an order book can hold: ads at the thresholds of the strict
\* filter, an ad only the relaxed filter accepts, an ad outside the price
\* bounds, and an entry the parser skips.
SampleItems ==
    { Item(TRUE, 70, 500, 300, 90, 1),       \* strict, every field at its minimum
      Item(TRUE, 120, 2000, 1500, 9800, 2),  \* strict, price at its maximum
      Item(TRUE, 80, 100, 100, 85, 4),       \* relaxed only, at its minimums
      Item(TRUE, 69, 2000, 1500, 9900, 5),   \* good seller, price below minPrice
      Item(TRUE, NaN, 900, 900, 99, 6) }     \* unparsable price: skipped

MaxAds == 6

\* The order books analysed: up to MaxAds of the entries above, and shorter
\* ones of entries the parsing loop has to judge: without the adv or
\* advertiser block, with a price that parses to NaN, 0, a negative number
\* or Infinity ("1e999"), with a quantity that parses to NaN, next to
\* entries it keeps
Listings ==
    LET ParseItems ==
            { Item(FALSE, 95, 800, 400, 9500, 11),
              Item(TRUE, NaN, 800, 400, 9500, 12),
              Item(TRUE, 0, 800, 400, 9500, 13),
              Item(TRUE, 0 - 5, 800, 400, 9500, 14),
              Item(TRUE, Infinity, 800, 400, 9500, 15),
              Item(TRUE, 95, NaN, 400, 9500, 16),
              Item(TRUE, 95, 800, 400, 9500, 17),
              Item(TRUE, 69, 800, 400, 9500, 18) }
    IN  UNION { [1 .. n -> SampleItems] : n \in 1 .. MaxAds }
            \cup UNION { [1 .. n -> ParseItems] : n \in 1 .. MaxAds - 3 }

InitAnalyze ==
    /\ PricingIdle
    /\ AnalyzeIdle
    /\ AggregatorIdle
    /\ OthersIdle

AnalyzeCall ==
    /\ anIn = None
    /\ \E data \in Listings :
          /\ anIn' = [kind |-> "call", data |-> data]
          /\ anOut' = analyzeP2P(data)
    /\ UNCHANGED <<prIn, prOut>>
    /\ UNCHANGED aggVars
    /\ UNCHANGED otherVars

NextAnalyze == AnalyzeCall

SpecAnalyze == InitAnalyze /\ [][NextAnalyze]_vars

(***************************************************************************)
(* Claims about the pricing engine (SpecPricing)                           *)
(***************************************************************************)
\* C1: every result of calculateCompetitiveRate carries a profitMargin of at
\* least minProfitMargin (0.8) minus a rounding epsilon (0.01 here), and never
\* a negative one, on every rung and after the rounding to 2 decimals.
C1_MarginAtLeastMinimum ==
    prOut # None =>
        /\ RatAtLeast(prOut.profitMargin, 79, 100)
        /\ RatAtLeast(prOut.profitMargin, 0, 1)

\* The primary candidate's margin ((rate - cost) / rate * 100, cost =
\* ngnRate / lowestInrRate) is at least 0.8
C2_PrimaryAcceptable ==
    LET cand == PrimaryRateCents(prIn.k1)
    IN  (cand * prIn.lowestInrRate - 100 * prIn.ngnRate) * 1000
            >= 8 * cand * prIn.lowestInrRate

C2_CoinGeckoPresent == prIn.coinGeckoInr # Null /\ prIn.coinGeckoInr > 0

\* C2: rateSource is 'Binance P2P (Primary)' exactly when the primary
\* candidate's margin is >= minProfitMargin; otherwise 'CoinGecko (Fallback)'
\* with usedCoinGeckoFallback exactly when coinGeckoInr is present and > 0,
\* and otherwise 'P2P (Forced Minimum)' with a warning; a forced or fallback
\* rate never carries the primary rateSource.
C2_RateSourceTellsTheRung ==
    prOut # None =>
        /\ prOut.rateSource = "Binance P2P (Primary)" <=> C2_PrimaryAcceptable
        /\ (prOut.rateSource = "CoinGecko (Fallback)")
              <=> (~C2_PrimaryAcceptable /\ C2_CoinGeckoPresent)
        /\ (prOut.rateSource = "P2P (Forced Minimum)")
              <=> (~C2_PrimaryAcceptable /\ ~C2_CoinGeckoPresent)
        /\ prOut.usedCoinGeckoFallback
              <=> (prOut.rateSource = "CoinGecko (Fallback)")
        /\ prOut.warning <=> (prOut.rateSource = "P2P (Forced Minimum)")
        /\ prOut.rateSource = "Binance P2P (Primary)"
              => /\ prOut.targetRate = PrimaryRateCents(prIn.k1)
                 /\ prOut.baseCost = <<prIn.ngnRate, prIn.lowestInrRate>>

\* The last rung was taken: low margin and no CoinGecko rate
C2_ForcedMinimumFlagged ==
    /\ prOut # None
    /\ ~C2_PrimaryAcceptable
    /\ prIn.coinGeckoInr = Null
    /\ prOut.rateSource = "P2P (Forced Minimum)"
    /\ prOut.warning

(***************************************************************************)
(* Claims about the P2P analyzer (SpecAnalyze)                             *)
(***************************************************************************)
\* C3: analyzeP2P never returns a result with goodAds = 0 or an empty topAds:
\* it returns goodAds >= 1 or raises 'No P2P ads meet quality criteria' or
\* 'No valid P2P ads found'.
C3_NeverZeroGoodAds ==
    anOut # None =>
        IF anOut.ok
        THEN anOut.goodAds >= 1 /\ Len(anOut.topAds) >= 1
        ELSE anOut.error \in {"No P2P ads meet quality criteria",
                              "No valid P2P ads found"}

\* Entries parse, but none passes a filter: the analysis raises
C3_NoneQualifies ==
    /\ anOut # None
    /\ Len(parseAds(anIn.data)) >= 2
    /\ ~anOut.ok
    /\ anOut.error = "No P2P ads meet quality criteria"

\* The thresholds of config.filters, on a parsed ad (completion in hundredths
\* of a percent)
C4_PassesStrict(a) ==
    /\ a.trades >= 300 /\ a.completion >= 9000 /\ a.qty >= 500
    /\ a.price >= 70 /\ a.price <= 120
C4_PassesRelaxed(a) ==
    /\ a.trades >= 100 /\ a.completion >= 8500 /\ a.qty >= 100
    /\ a.price >= 70 /\ a.price <= 120

C4_StrictAds == SelectSeq(parseAds(anIn.data), C4_PassesStrict)
C4_RelaxedAds == SelectSeq(parseAds(anIn.data), C4_PassesRelaxed)

\* The entry t of topAds shows one of the ads
C4_IsOneOf(t, ads) ==
    \E j \in 1 .. Len(ads) :
        /\ t.price = ads[j].price
        /\ t.qty = ads[j].qty
        /\ t.trades = ads[j].trades
        /\ t.userNo = ads[j].userNo

\* C4: the relaxed filter is used only when no parsed ad passes the strict
\* one: with a strict-passing ad, goodAds counts exactly the strict-passing
\* ads and every ad of topAds is one that passes strict; otherwise every ad
\* of topAds is one that passes relaxed; if none passes relaxed the analysis
\* raises an error.
C4_RelaxedOnlyWhenStrictEmpty ==
    anOut # None =>
        LET strictAds == C4_StrictAds
            relaxedAds == C4_RelaxedAds
            top == IF anOut.ok THEN anOut.topAds ELSE <<>>
        IN  /\ Len(strictAds) >= 1 =>
                  /\ anOut.ok
                  /\ anOut.goodAds = Len(strictAds)
                  /\ \A i \in 1 .. Len(top) : C4_IsOneOf(top[i], strictAds)
            /\ (Len(strictAds) = 0 /\ Len(relaxedAds) >= 1) =>
                  /\ anOut.ok
                  /\ anOut.goodAds = Len(relaxedAds)
                  /\ \A i \in 1 .. Len(top) : C4_IsOneOf(top[i], relaxedAds)
            /\ Len(relaxedAds) = 0 => ~anOut.ok

\* The relaxed filter was used although other entries were in the payload
C4_RelaxedUsed ==
    /\ anOut # None
    /\ anOut.ok
    /\ Len(C4_StrictAds) = 0
    /\ Len(anIn.data) > anOut.goodAds
    /\ \E i \in 1 .. Len(anOut.topAds) : anOut.topAds[i].trades < 300

\* The ads that passed the filter analyzeP2P applied
C5_PassingAds ==
    LET strictAds == C4_StrictAds
    IN  IF Len(strictAds) >= 1 THEN strictAds ELSE C4_RelaxedAds

\* C5: topAds is sorted ascending by price, has length min(5, goodAds), and
\* lowestRate is the price of its first element, the minimum over all ads
\* that passed the applied filter.
C5_TopAdsSortedAndLowest ==
    (anOut # None /\ anOut.ok) =>
        LET top == anOut.topAds
            passing == C5_PassingAds
        IN  /\ \A i \in 1 .. Len(top) - 1 : top[i].price <= top[i + 1].price
            /\ Len(top) = (IF anOut.goodAds < 5 THEN anOut.goodAds ELSE 5)
            /\ Len(top) <= 5
            /\ anOut.lowestRate = top[1].price
            /\ \A j \in 1 .. Len(passing) : anOut.lowestRate <= passing[j].price

\* Six ads qualify, the dearest comes first in the payload: five are kept,
\* the cheapest first
C5_SixQualify ==
    /\ anOut # None
    /\ anOut.ok
    /\ anOut.goodAds >= 6
    /\ anIn.data[1].price = 120
    /\ Len(anOut.topAds) = 5
    /\ anOut.topAds[1].price = 70
    /\ anOut.topAds[5].price > 70

(***************************************************************************)
(* Claims about the market-data aggregator and its cache (Spec)            *)
(***************************************************************************)
\* The order-book fetch of a settled call failed, or its analysis raises
C6_P2PUnusable(call) ==
    \/ call.results[3].status = "rejected"
    \/ ~analyzeP2P(call.results[3].value).ok

\* C6: when the order-book fetch fails or analyzeP2P raises, getMarketData
\* raises an error, returns no snapshot and stores nothing: no step of the
\* call changes the entry the cache holds, whatever the other two fetches
\* returned.
C6_P2PFailureAbortsAndStoresNothing ==
    [][\A c \in Callers :
          /\ (calls[c].pc = "idle" /\ calls'[c].pc = "fetching")
                => cacheGet' = cacheGet
          /\ (calls[c].pc = "fetching" /\ calls'[c].pc = "fetching"
                  /\ calls'[c] # calls[c])
                => cache' = cache
          /\ (calls[c].pc = "fetching" /\ calls'[c].pc # "fetching"
                  /\ C6_P2PUnusable(calls[c]))
                => /\ calls'[c].pc = "failed"
                   /\ ~calls'[c].result.ok
                   /\ cache' = cache]_vars

\* A refresh failed for want of P2P data although spot and reference
\* succeeded, and the snapshot stored earlier is still in the cache
C6_FailedBesideLiveSnapshot ==
    \E c \in Callers :
        /\ calls[c].pc = "failed"
        /\ calls[c].results[1].status = "fulfilled"
        /\ calls[c].results[2].status = "fulfilled"
        /\ calls[c].results[3].status = "rejected"
        /\ calls[c].result.error = "Critical: P2P data unavailable"
        /\ cache # None
        /\ cache.value.ok

\* A call that went through the three fetches and is over
C7_Refreshed(c) ==
    calls[c].pc \in {"returned", "failed"} /\ calls[c].started # {}

\* C7 (fallback-enabled server): when the reference fetch fails while the
\* order-book fetch and analysis succeed, getMarketData succeeds with
\* ngnRateWithMarkup = fallback.ngnRate + ngnMarkup (1650 + 20), usedFallback
\* = true and, if the spot fetch succeeded, exactly one error entry, for the
\* reference source; with a positive fetched NGN rate, ngnRateWithMarkup is
\* that rate + markup and usedFallback = false.
C7_ReferenceFailureUsesFallback ==
    \A c \in Callers :
        (variant = "fallback" /\ C7_Refreshed(c)) =>
            LET r == calls[c].results
                out == calls[c].result
            IN  /\ (r[2].status = "rejected" /\ r[3].status = "fulfilled"
                        /\ analyzeP2P(r[3].value).ok)
                      => /\ calls[c].pc = "returned"
                         /\ out.ok
                         /\ out.rates.ngnRateWithMarkup = 1650 + 20
                         /\ out.rates.usedFallback
                         /\ r[1].status = "fulfilled" =>
                               /\ out.errors.defined
                               /\ out.errors.list = <<[source |-> "coinGecko",
                                                       error |->
                                                         r[2].reason.message]>>
                /\ (out.ok /\ r[2].status = "fulfilled" /\ r[2].value.ngn # Null
                        /\ r[2].value.ngn > 0)
                      => /\ out.rates.ngnRateWithMarkup = r[2].value.ngn + 20
                         /\ ~out.rates.usedFallback

\* Scenario B: the reference fetch failed, spot and order book succeeded
C7_ScenarioB ==
    \E c \in Callers :
        /\ variant = "fallback"
        /\ calls[c].pc = "returned"
        /\ calls[c].started # {}
        /\ calls[c].results[1].status = "fulfilled"
        /\ calls[c].results[2].status = "rejected"
        /\ calls[c].result.rates.usedFallback
        /\ Len(calls[c].result.errors.list) = 1

C8_SourceNames == <<"binanceSpot", "coinGecko", "binanceP2P">>

\* One entry per failed source, in the order spot, reference, order book
C8_ExpectedErrors(r) ==
    LET e(i) == IF r[i].status = "rejected"
                THEN <<[source |-> C8_SourceNames[i],
                        error |-> r[i].reason.message]>>
                ELSE <<>>
    IN  e(1) \o e(2) \o e(3)

\* C8: a miss starts all three fetches and waits for each outcome on its
\* own: while one is pending it can still settle whatever the others did,
\* the call goes on only when all three have settled, each outcome is
\* recorded, and the errors list holds one entry per failed source in the
\* order spot, reference, order book.
C8_EachFetchSettlesOnItsOwn ==
    \A c \in Callers :
        /\ calls[c].pc = "fetching" =>
              /\ calls[c].started = {"binanceSpot", "coinGecko", "binanceP2P"}
              /\ calls[c].results[1].status = "pending" => ENABLED SpotSettles(c)
              /\ calls[c].results[2].status = "pending"
                    => ENABLED CoinGeckoSettles(c)
              /\ calls[c].results[3].status = "pending" => ENABLED P2PSettles(c)
              /\ (\E i \in 1 .. 3 : calls[c].results[i].status = "pending")
                    => ~ENABLED Aggregate(c)
        /\ C7_Refreshed(c) =>
              LET r == calls[c].results
                  out == calls[c].result
              IN  /\ \A i \in 1 .. 3 : r[i].status \in {"fulfilled", "rejected"}
                  /\ out.ok =>
                        /\ out.errors.list = C8_ExpectedErrors(r)
                        /\ out.errors.defined <=> (C8_ExpectedErrors(r) # <<>>)
                        /\ r[1].status = "fulfilled"
                              => out.rates.binanceSpot = r[1].value
                        /\ r[2].status = "fulfilled"
                              => /\ out.rates.coinGeckoInr = r[2].value.inr
                                 /\ out.rates.coinGeckoNgn = r[2].value.ngn
                        /\ r[3].status = "fulfilled"
                  /\ r[3].status = "rejected" =>
                        out.errors = C8_ExpectedErrors(r)

\* Spot timed out and the reference failed; the order book was fetched all
\* the same and the call returned a snapshot with both errors, in order
C8_TwoFailuresOneSuccess ==
    \E c \in Callers :
        /\ calls[c].pc = "returned"
        /\ calls[c].started # {}
        /\ calls[c].results[1] = Rejected("Request timeout")
        /\ calls[c].results[2].status = "rejected"
        /\ calls[c].results[3].status = "fulfilled"
        /\ Len(calls[c].result.errors.list) = 2
        /\ calls[c].result.errors.list[1].source = "binanceSpot"

\* The cache holds a snapshot no older than the TTL (1800 s in the
\* fallback-enabled server, 300 s in the strict one)
C9_WithinTtl ==
    /\ cache # None
    /\ now - cache.value.timestamp <= (IF variant = "fallback" THEN 1800 ELSE 300)

\* The routes whose getMarketData call has useCache = true
C9_UsesCache(route) ==
    route \in {"rates", "convert"} \/ (route = "ready" /\ variant = "strict")

\* C9: a getMarketData(useCache = true) call made while the stored snapshot
\* is within its TTL returns that snapshot, unchanged, and starts no fetch;
\* one made after the TTL has expired starts exactly three fetches, one per
\* source.
C9_HitWithinTtlMissAfter ==
    [][\A c \in Callers :
          (calls[c].pc = "idle" /\ calls'[c].pc # "idle"
              /\ C9_UsesCache(calls'[c].route))
          => IF C9_WithinTtl
             THEN /\ calls'[c].pc = "returned"
                  /\ calls'[c].result = cache.value
                  /\ calls'[c].started = {}
                  /\ cache' = cache
             ELSE /\ calls'[c].pc = "fetching"
                  /\ calls'[c].started = {"binanceSpot", "coinGecko", "binanceP2P"}
                  /\ \A i \in 1 .. 3 : calls'[c].results[i].status = "pending"]_vars

\* A conversion is answered from the cache some time after the snapshot was
\* stored
C9_LaterHit ==
    \E c \in Callers :
        /\ calls[c].pc = "returned"
        /\ calls[c].route = "convert"
        /\ calls[c].started = {}
        /\ calls[c].result.timestamp < now
        /\ cache # None
        /\ cache.value = calls[c].result

\* The admin flush: the entry goes and no call moves
C10_Flushed == cache' = None /\ calls' = calls /\ now' = now

\* C10 as stated: a stored snapshot stays in the cache, unmodified, for the
\* whole TTL window; only TTL expiry or the admin flush replaces or removes
\* it, no rates, convert or readiness request does so earlier.
C10_HeldForWholeTtl ==
    [][C9_WithinTtl => (cache' = cache \/ C10_Flushed)]_vars

\* C10 as amended: within the TTL window the entry changes only by the admin
\* flush or when a call that refetched stores its snapshot; a call answered
\* from the cache leaves the entry as it is.
C10_ReplacedOnlyByFlushOrRefresh ==
    [][C9_WithinTtl =>
          \/ cache' = cache
          \/ C10_Flushed
          \/ \E c \in Callers :
                /\ calls[c].pc = "fetching"
                /\ calls'[c].pc = "returned"
                /\ calls'[c].result.ok
                /\ cache'.value = calls'[c].result
                /\ cache'.expires = now + (IF variant = "fallback" THEN 1800
                                           ELSE 300)]_vars

\* The readiness probe of the fallback-enabled server has replaced a
\* snapshot that was still within its TTL
C10_ProbeReplacedLiveSnapshot ==
    \E c \in Callers :
        /\ variant = "fallback"
        /\ calls[c].pc = "returned"
        /\ calls[c].route = "ready"
        /\ calls[c].started # {}
        /\ calls[c].result.obj >= 2
        /\ cache # None
        /\ cache.value = calls[c].result
        /\ now < 1800

(***************************************************************************)
(* Claims about concurrent getMarketData calls (SpecRace)                  *)
(***************************************************************************)
\* The cache key holds nothing, or one complete snapshot built by a refresh
C11_NothingOrOneSnapshot ==
    \/ cache = None
    \/ /\ cache.kind = "entry"
       /\ cache.value.ok
       /\ cache.value.obj \in 1 .. misses
       /\ cache.value.p2p.ok
       /\ cache.value.p2p.goodAds >= 1
       /\ cache.value.rates.p2pLowest = cache.value.p2p.lowestRate
       /\ cache.value.rates.ngnRateWithMarkup > 0

\* C11: concurrent getMarketData calls that observe a miss each start their
\* own three fetches; the cache key always holds nothing or one complete
\* snapshot of a successful refresh, the one that finished last; a refresh
\* that fails leaves the cache as it is, and nothing but a finishing refresh
\* or the flush changes the entry.
C11_LastRefreshWins ==
    [][/\ C11_NothingOrOneSnapshot
       /\ C11_NothingOrOneSnapshot'
       /\ \A c \in Callers :
             /\ (calls[c].pc = "idle" /\ calls'[c].pc # "idle" /\ cacheGet = None)
                   => /\ calls'[c].pc = "fetching"
                      /\ calls'[c].started = {"binanceSpot", "coinGecko", "binanceP2P"}
                      /\ \A d \in Callers \ {c} :
                            calls[d].pc = "fetching"
                                => calls'[c].refresh # calls[d].refresh
             /\ (calls[c].pc = "fetching" /\ calls'[c].pc = "failed")
                   => cache' = cache
             /\ (calls[c].pc = "fetching" /\ calls'[c].pc = "returned")
                   => cache' # None /\ cache'.value = calls'[c].result
       /\ cache' # cache =>
             \/ cache' = None /\ calls' = calls
             \/ \E c \in Callers :
                   calls[c].pc = "fetching" /\ calls'[c].pc = "returned"]_vars

\* Two rates requests both missed; the one that missed later has finished
\* and its snapshot is in the cache while the earlier one is still fetching
C11_TwoMissesInFlight ==
    /\ calls[1].pc = "fetching"
    /\ calls[1].route = "rates"
    /\ calls[2].pc = "returned"
    /\ calls[2].route = "rates"
    /\ calls[2].started # {}
    /\ calls[1].refresh < calls[2].result.obj
    /\ cache # None
    /\ cache.value = calls[2].result

(***************************************************************************)
(* Claims about the fetchers (SpecRetry)                                   *)
(***************************************************************************)
\* Every request attempt of the call but the last one failed
C12_StoppedAtFirstSuccess ==
    \A k \in 1 .. Len(fetch.log) - 1 : fetch.log[k].status = "rejected"

\* The attempts of the call, counted: at most maxRetries for the order book,
\* exactly one for spot and reference
C12_AttemptsWithinLimit ==
    IF fetch.fn = "fetchBinanceP2P"
    THEN /\ Len(fetch.log) >= 1
         /\ Len(fetch.log) <= 5
         /\ C12_StoppedAtFirstSuccess
         /\ fetch.log[Len(fetch.log)].status = "rejected" =>
               /\ Len(fetch.log) = 5
               /\ fetch.result = fetch.log[5]
    ELSE Len(fetch.log) = 1

\* C12 as stated: fetchBinanceP2P makes at most maxRetries (5) attempts,
\* stops at the first that succeeds and returns its data, and after the last
\* failed attempt fails with that attempt's error; fetchBinanceSpot and
\* fetchCoinGecko make exactly one attempt.
C12_RetriesOnlyTheOrderBook ==
    /\ fetch.pc # "idle" => Len(fetch.log) <= (IF fetch.fn = "fetchBinanceP2P"
                                               THEN 5 ELSE 1)
    /\ fetch.pc = "done" =>
          /\ C12_AttemptsWithinLimit
          /\ (fetch.fn = "fetchBinanceP2P"
                  /\ fetch.log[Len(fetch.log)].status = "fulfilled")
                => fetch.result = Fulfilled(fetch.log[Len(fetch.log)].value)

\* C12 as amended: the same, but the data of the first successful attempt is
\* returned only when it holds a non-empty listing; an empty one makes the
\* call fail with 'No P2P data available', without another attempt.
C12_RetriesOnlyFailedRequests ==
    /\ fetch.pc # "idle" => Len(fetch.log) <= (IF fetch.fn = "fetchBinanceP2P"
                                               THEN 5 ELSE 1)
    /\ fetch.pc = "done" =>
          /\ C12_AttemptsWithinLimit
          /\ (fetch.fn = "fetchBinanceP2P"
                  /\ fetch.log[Len(fetch.log)].status = "fulfilled")
                => LET data == fetch.log[Len(fetch.log)].value
                   IN  fetch.result = IF data = <<>>
                                      THEN Rejected("No P2P data available")
                                      ELSE Fulfilled(data)

\* The order-book request failed twice and then answered with an empty
\* listing: three attempts, and the call fails
C12_EmptyListingAfterRetries ==
    /\ fetch.pc = "done"
    /\ fetch.fn = "fetchBinanceP2P"
    /\ Len(fetch.log) = 3
    /\ fetch.log[3] = Fulfilled(<<>>)
    /\ fetch.result.status = "rejected"

(***************************************************************************)
(* Transaction sessions (src/script.js).  Money is exact: an amount in     *)
(* INR is a rational <<num, den>>, a number printed with toFixed(2) is the *)
(* text <<whole, frac>> of its integer part and its two decimals.          *)
(***************************************************************************)
sessionTTL == 300000              \* config.security.sessionTTL = 5 * 60 * 1000

\* config.fees.tiers; percent is kept in quarters of a percent (2.5% = 10)
feeTiers ==
    << [max |-> 10000, percent |-> 10],
       [max |-> 50000, percent |-> 8],
       [max |-> 100000, percent |-> 6],
       [max |-> 500000, percent |-> 4],
       [max |-> Infinity, percent |-> 3] >>

RECURSIVE Gcd(_, _)
Gcd(a, b) == IF b = 0 THEN a ELSE Gcd(b, a % b)

\* r * a / b for a rational r, cancelling before multiplying
RatTimes(r, a, b) ==
    LET g == Gcd(r[1], b)
        h == Gcd(a, r[2])
    IN  <<(r[1] \div g) * (a \div h), (r[2] \div h) * (b \div g)>>

\* a - b, over the least common denominator
RatMinus(a, b) ==
    LET l == (a[2] \div Gcd(a[2], b[2])) * b[2]
    IN  <<a[1] * (l \div a[2]) - b[1] * (l \div b[2]), l>>

RECURSIVE tierFrom_below(_, _)
tierFrom_below(amount, i) ==
    IF \/ i = Len(feeTiers)
       \/ feeTiers[i].max = Infinity
       \/ amount[1] < feeTiers[i].max * amount[2]
    THEN feeTiers[i]
    ELSE tierFrom_below(amount, i + 1)

RECURSIVE tierFrom(_, _)
\* for (const tier of config.fees.tiers) if (amount <= tier.max) ...; an
\* amount no tier takes gets the last one
tierFrom(amount, i) ==
    IF \/ i = Len(feeTiers)
       \/ feeTiers[i].max = Infinity
       \/ amount[1] <= feeTiers[i].max * amount[2]
    THEN feeTiers[i]
    ELSE tierFrom(amount, i + 1)

calculateFees_feeOnTop(amount) ==
    LET tier == tierFrom(amount, 1)
        feeAmount == RatTimes(amount, tier.percent, 400)
    IN  [feePercent |-> tier.percent,
         feeAmount |-> feeAmount,
         netAmount |-> amount]

calculateFees(amount) ==
    LET tier == tierFrom(amount, 1)
        feeAmount == RatTimes(amount, tier.percent, 400)
    IN  [feePercent |-> tier.percent,
         feeAmount |-> feeAmount,
         netAmount |-> RatMinus(amount, feeAmount)]

\* x.toFixed(2) of a non-negative rational: its digits before and after the
\* decimal point
toFixed2(x) ==
    LET whole == x[1] \div x[2]
        frac == RoundDiv(100 * (x[1] % x[2]), x[2])
    IN  IF frac = 100 THEN <<whole + 1, 0>> ELSE <<whole, frac>>

\* parseFloat(text.replace(/[^0-9.-]+/g, "")) of a text that holds one
\* toFixed(2) number: that number, in hundredths
parseAmount(text) == 100 * text.number[1] + text.number[2]

\* transactionData of POST /api/convert for an amount and a pricing result,
\* with the three texts it builds (lines 1484-1486)
transactionData(amount, competitive) ==
    LET grossInr == <<100 * amount, competitive.targetRate>>
        fees == calculateFees(grossInr)
    IN  [amount |-> amount, from |-> "NGN", to |-> "INR",
         exchangeRate |->
            [pattern |-> "N<rate> per R1",
             number |-> toFixed2(<<competitive.targetRate, 100>>)],
         youGet |->
            [pattern |-> "R<amount> INR", number |-> toFixed2(fees.netAmount)],
         feeCharged |->
            [pattern |-> "<percent>% (R<fee>)", percent |-> fees.feePercent,
             number |-> toFixed2(fees.feeAmount)]]

\* Mutant of keyConfigured: the key is never checked
keyConfigured_unchecked == TRUE

\* The key check of createTransactionSession
keyConfigured ==
    encryptionKey # "" /\ encryptionKey # "change-this-encryption-key"

\* CryptoJS.AES.encrypt(JSON.stringify(data), key)
encryptData(data) == [cipher |-> data, key |-> encryptionKey]

\* decryptData: the data, or the error it throws on what was not encrypted
\* with the key
decryptData(encrypted) ==
    IF encrypted # None /\ encrypted.key = encryptionKey
    THEN [ok |-> TRUE, data |-> encrypted.cipher]
    ELSE [ok |-> FALSE, error |-> "Data decryption failed"]

\* A reference the server makes up: `HP-${sessionId}-${Date.now()}`
NoReference == <<>>
referenceOf(id, at) == <<"HP", id, at>>

\* A path with nothing below it: every field reads as undefined
EmptyRecord ==
    [status |-> "none", createdAt |-> Null, expiresAt |-> Null,
     encryptedUserDetails |-> None, encryptedTransaction |-> None,
     summary |-> None,
     paystackReference |-> NoReference, paystackInitializedAt |-> Null,
     updatedAt |-> Null, paidAmount |-> Null, paidAt |-> Null,
     paymentChannel |-> "none", verifiedAt |-> Null,
     webhookReceivedAt |-> Null, failureReason |-> "none", failedAt |-> Null,
     paymentProof |-> "none", notes |-> "none", updatedBy |-> "none"]

\* sessionData of createTransactionSession (lines 955-970)
sessionData(tx, userDetails, timestamp, expiresAt) ==
    [EmptyRecord EXCEPT
        !.status = "pending",
        !.createdAt = timestamp,
        !.expiresAt = expiresAt,
        !.encryptedUserDetails = encryptData(userDetails),
        !.encryptedTransaction =
            encryptData([amount |-> tx.amount, from |-> tx.from, to |-> tx.to,
                         exchangeRate |-> tx.exchangeRate,
                         youGet |-> tx.youGet,
                         feeCharged |-> tx.feeCharged]),
        !.summary = [amountNGN |-> tx.amount,
                     amountINR |-> parseAmount(tx.youGet),
                     userName |-> userDetails.customerName]]

exists(id) == sessions[id] # NoSession

\* Mutant of dbUpdate: the record is replaced by the update, as set() does
dbUpdate_replace(id, updates) ==
    [sessions EXCEPT ![id] =
        [k \in DOMAIN EmptyRecord |->
            IF k \in DOMAIN updates THEN updates[k] ELSE EmptyRecord[k]]]

\* ref.update(updates): the named fields are written, the rest is kept; on
\* a path that holds nothing the record comes to hold just these fields
dbUpdate(id, updates) ==
    LET old == IF exists(id) THEN sessions[id] ELSE EmptyRecord
    IN  [sessions EXCEPT ![id] =
            [k \in DOMAIN old |->
                IF k \in DOMAIN updates THEN updates[k] ELSE old[k]]]

\* Mutant of metricsAfter: a status update counts nothing
metricsAfter_none(status) == txMetrics

\* The metrics part of updateTransactionStatus (lines 1020-1026)
metricsAfter(status) ==
    IF status = "completed"
    THEN [txMetrics EXCEPT !.completed = @ + 1, !.pending = @ - 1]
    ELSE IF status = "failed"
    THEN [txMetrics EXCEPT !.failed = @ + 1, !.pending = @ - 1]
    ELSE txMetrics

\* getTransactionSession: the session with its decrypted transaction, or the
\* APIError / Error it throws
getTransactionSession(id) ==
    IF ~exists(id)
    THEN [ok |-> FALSE, code |-> 404, error |-> "Session not found"]
    ELSE IF sessions[id].expiresAt # Null /\ sessions[id].expiresAt < clock
    THEN [ok |-> FALSE, code |-> 410, error |-> "Session expired"]
    ELSE LET userDetails == decryptData(sessions[id].encryptedUserDetails)
             transaction == decryptData(sessions[id].encryptedTransaction)
         IN  IF ~userDetails.ok
             THEN [ok |-> FALSE, code |-> 500, error |-> userDetails.error]
             ELSE IF ~transaction.ok
             THEN [ok |-> FALSE, code |-> 500, error |-> transaction.error]
             ELSE [ok |-> TRUE, session |-> sessions[id],
                   userDetails |-> userDetails.data,
                   transaction |-> transaction.data]

(***************************************************************************)
(* The requests.  SpecSession serves them one at a time, each handler from *)
(* its first line to its response; SpecPayRace follows a verify-manual     *)
(* request and a webhook through their awaits.                             *)
(***************************************************************************)
MaxRequests == 3

\* The conversion requests and admin reads followed
MaxPosts == 2
MaxClock == 600001
\* Milliseconds that may pass between the two Date.now() calls of
\* createTransactionSession
MaxElapsed == 1

\* An amount within config.limits, in NGN: its gross INR amount falls into
\* the first or the second fee tier, with the rate
Amounts == {200000}

\* Math.random() at the two ends of its range
Draws == {0, RandomSteps - 1}

\* What the three fetchers end with when a conversion has to fetch
MarketResults ==
    { <<Fulfilled(88), Fulfilled([inr |-> 89, ngn |-> 1480]), Fulfilled(GoodListing)>>,
      <<Fulfilled(88), Rejected("Request timeout"), Fulfilled(GoodListing)>>,
      <<Fulfilled(88), Fulfilled([inr |-> 89, ngn |-> 1480]),
        Rejected("Request timeout")>> }

\* What Paystack answers to /transaction/verify/<reference>
GatewayAnswers ==
    { [answered |-> TRUE, status |-> TRUE, data |->
          [status |-> "success", amount |-> 100000, channel |-> "card",
           gateway_response |-> "Successful"]],
      [answered |-> TRUE, status |-> TRUE, data |->
          [status |-> "failed", amount |-> 100000, channel |-> "card",
           gateway_response |-> "Declined"]],
      [answered |-> TRUE, status |-> FALSE, data |-> None],
      [answered |-> FALSE, status |-> FALSE, data |-> None] }

\* The references a payment request may carry for a session: the one stored
\* with the session, or one made for it at time 0
referencesFor(id) ==
    IF exists(id) /\ sessions[id].paystackReference # NoReference
    THEN {sessions[id].paystackReference}
    ELSE {referenceOf(id, 0)}

\* A response: res.status(code).json({error, sessionId, ...}), numbered,
\* with the route and session id of the request and the admin key it gave;
\* userDetails are the decrypted user details the body holds, if any
respond(route, id, code, error, sessionId) ==
    [n |-> resp.n + 1, route |-> route, sid |-> id, apiKey |-> "none",
     code |-> code, error |-> error, sessionId |-> sessionId,
     userDetails |-> None, at |-> clock]

\* POST /api/convert from the market data on, for a request that passed
\* validation and the fraud check: getMarketData, calculateCompetitiveRate, calculateFees and
\* createTransactionSession.  elapsed is the time between the two
\* Date.now() calls of createTransactionSession, storeUp whether the store
\* accepts the set().
quoteAndStore(id, amount, userDetails) ==
    /\ \E results \in MarketResults,
          k1 \in Draws, k2 \in Draws,
          elapsed \in {0, MaxElapsed}, storeUp \in BOOLEAN :
          LET hit == cacheGet # None
              marketData == IF hit THEN cacheGet
                            ELSE aggregate(results, misses + 1)
              competitive ==
                  calculateCompetitiveRate(marketData.rates.p2pLowest,
                                           marketData.rates.ngnRateWithMarkup,
                                           marketData.rates.coinGeckoInr,
                                           k1, k2)
              tx == transactionData(amount, competitive)
              timestamp == clock
              expiresAt == clock + elapsed + sessionTTL
          IN  /\ clock + elapsed <= MaxClock
              /\ hits' = IF hit THEN hits + 1 ELSE hits
              /\ misses' = IF hit THEN misses ELSE misses + 1
              /\ cache' = IF hit THEN cache ELSE cacheAfter(marketData)
              /\ IF ~marketData.ok
                 THEN /\ resp' = respond("convert", id, 503, marketData.error,
                                         "none")
                      /\ UNCHANGED <<clock, sessions, created, txMetrics>>
                 ELSE IF ~keyConfigured \/ ~storeUp
                 THEN /\ clock' = clock + elapsed
                      /\ resp' = [respond("convert", id, 500,
                                          "Transaction session creation failed",
                                          "none")
                                  EXCEPT !.at = clock + elapsed]
                      /\ UNCHANGED <<sessions, created, txMetrics>>
                 ELSE /\ clock' = clock + elapsed
                      /\ sessions' =
                            [sessions EXCEPT
                                ![id] = sessionData(tx, userDetails, timestamp,
                                                    expiresAt)]
                      /\ txMetrics' = [txMetrics EXCEPT !.total = @ + 1,
                                                        !.pending = @ + 1]
                      /\ created' =
                            [created EXCEPT
                                ![id] = [kind |-> "created",
                                         amount |-> amount,
                                         competitive |-> competitive,
                                         timestamp |-> timestamp,
                                         expiresAt |-> expiresAt]]
                      /\ resp' = [respond("convert", id, 200, "none", id)
                                  EXCEPT !.at = clock + elapsed]
    /\ UNCHANGED <<prIn, prOut, anIn, anOut, fetch>>
    /\ UNCHANGED <<variant, now, calls>>
    /\ UNCHANGED <<encryptionKey, pays>>

\* POST /api/convert with a body that passes every check and names neither
\* an email nor a phone, so that checkFraudRisk keeps no daily total
Convert(id) ==
    /\ resp.n < MaxRequests
    /\ ~exists(id)
    /\ created[id] = None
    /\ \E amount \in Amounts :
          quoteAndStore(id, amount,
                        [customerName |-> "Anonymous", email |-> "none",
                         phone |-> "none"])
    /\ UNCHANGED <<request, dailyTotals, tasks>>

\* A request that makes getMarketData fetch and store a fresh snapshot
MarketRefresh ==
    /\ resp.n < MaxRequests
    /\ \E results \in MarketResults :
          LET marketData == aggregate(results, misses + 1)
          IN  /\ misses' = misses + 1
              /\ cache' = cacheAfter(marketData)
              /\ resp' = respond("rates", "none",
                                 IF marketData.ok THEN 200 ELSE 503,
                                 IF marketData.ok THEN "none"
                                 ELSE marketData.error, "none")
    /\ UNCHANGED <<prIn, prOut, anIn, anOut, fetch>>
    /\ UNCHANGED <<variant, now, hits, calls>>
    /\ UNCHANGED <<clock, encryptionKey, tasks, request, dailyTotals, sessions,
                   created, txMetrics, pays>>

\* POST /api/payment/initialize.  paystackAPI is an object, so the mock
\* branch is the one taken and response.status is true.
Initialize(id) ==
    /\ resp.n < MaxRequests
    /\ LET got == getTransactionSession(id)
           reference == referenceOf(id, clock)
       IN  IF ~got.ok
           THEN /\ resp' = respond("initialize", id, got.code, got.error, "none")
                /\ UNCHANGED sessions
           ELSE IF got.session.status # "pending"
           THEN /\ resp' = respond("initialize", id, 400,
                                   "Transaction already " \o got.session.status,
                                   "none")
                /\ UNCHANGED sessions
           ELSE /\ sessions' = dbUpdate(id,
                                 [paystackReference |-> reference,
                                  paystackInitializedAt |-> clock,
                                  status |-> "payment_initiated"])
                /\ resp' = respond("initialize", id, 200, "none", id)
    /\ UNCHANGED <<prIn, prOut, anIn, anOut, fetch>>
    /\ UNCHANGED aggVars
    /\ UNCHANGED <<clock, encryptionKey, tasks, request, dailyTotals, created,
                   txMetrics, pays>>

\* The update verify-manual makes for what the gateway reported
manualUpdate(reference, tx) ==
    IF tx.status = "success"
    THEN [status |-> "completed", paystackReference |-> reference,
          paidAmount |-> tx.amount \div 100, paidAt |-> clock,
          paymentChannel |-> tx.channel, verifiedAt |-> clock]
    ELSE [status |-> "failed", failureReason |-> tx.gateway_response,
          failedAt |-> clock]

\* POST /api/payment/verify-manual with a reference and a sessionId
VerifyManual(id) ==
    /\ resp.n < MaxRequests
    /\ \E reference \in referencesFor(id), response \in GatewayAnswers :
          IF ~response.answered
          THEN /\ resp' = respond("verify-manual", id, 500,
                                  "Verification failed", "none")
               /\ UNCHANGED sessions
          ELSE IF ~response.status \/ response.data = None
          THEN /\ resp' = respond("verify-manual", id, 400,
                                  "Verification failed", "none")
               /\ UNCHANGED sessions
          ELSE /\ sessions' = dbUpdate(id, manualUpdate(reference, response.data))
               /\ resp' = IF response.data.status = "success"
                          THEN respond("verify-manual", id, 200, "none", id)
                          ELSE respond("verify-manual", id, 200,
                                       response.data.gateway_response, "none")
    /\ UNCHANGED <<prIn, prOut, anIn, anOut, fetch>>
    /\ UNCHANGED aggVars
    /\ UNCHANGED <<clock, encryptionKey, tasks, request, dailyTotals, created,
                   txMetrics, pays>>

\* GET /api/payment/verify: paystackAPI has no `transaction` member, so
\* paystackAPI.transaction.verify throws a TypeError, which the handler
\* catches: it redirects to the error page and updates nothing
Verify(id) ==
    /\ resp.n < MaxRequests
    /\ resp' = respond("verify", id, 302, "payment-error", "none")
    /\ UNCHANGED <<prIn, prOut, anIn, anOut, fetch>>
    /\ UNCHANGED aggVars
    /\ UNCHANGED <<clock, encryptionKey, tasks, request, dailyTotals, sessions,
                   created, txMetrics, pays>>

\* The fields a charge.success event makes the webhook write
webhookData(reference, data) ==
    [paystackReference |-> reference, paidAmount |-> data.amount \div 100,
     paidAt |-> clock, paymentChannel |-> data.channel,
     webhookReceivedAt |-> clock]

\* updateTransactionStatus: the update it sends to the store
statusUpdate(status, additionalData) ==
    [k \in {"status", "updatedAt"} \cup DOMAIN additionalData |->
        IF k = "status" THEN status
        ELSE IF k = "updatedAt" THEN clock
        ELSE additionalData[k]]

\* POST /api/webhook/paystack for an event whose metadata names the session
Webhook(id) ==
    /\ resp.n < MaxRequests
    /\ \E reference \in referencesFor(id), signed \in BOOLEAN,
          event \in {"charge.success", "charge.failed"} :
          IF ~signed
          THEN /\ resp' = respond("webhook", id, 400, "none", "none")
               /\ UNCHANGED <<sessions, txMetrics>>
          ELSE IF event # "charge.success"
          THEN /\ resp' = respond("webhook", id, 200, "none", "none")
               /\ UNCHANGED <<sessions, txMetrics>>
          ELSE /\ sessions' =
                     dbUpdate(id, statusUpdate("completed",
                         webhookData(reference,
                                     [amount |-> 100000, channel |-> "card"])))
               /\ txMetrics' = metricsAfter("completed")
               /\ resp' = respond("webhook", id, 200, "none", "none")
    /\ UNCHANGED <<prIn, prOut, anIn, anOut, fetch>>
    /\ UNCHANGED aggVars
    /\ UNCHANGED <<clock, encryptionKey, tasks, request, dailyTotals, created, pays>>

validateAdminAuth_anyKey(providedKey) ==
    IF providedKey = "none" THEN [ok |-> FALSE, code |-> 401,
                                  error |-> "Unauthorized"]
    ELSE [ok |-> TRUE]

\* validateAdminAuth: config.security.adminApiKey is ADMIN_API_KEY or its
\* default and so never empty; providedKey is the x-api-key header or the
\* apiKey query parameter, "none" when neither is given
validateAdminAuth(providedKey) ==
    IF providedKey = "none" \/ providedKey # "change-this-key"
    THEN [ok |-> FALSE, code |-> 401, error |-> "Unauthorized"]
    ELSE [ok |-> TRUE]

\* The admin endpoints that read: GET /api/admin/transaction/:sessionId
\* ("detail"), GET /api/admin/transactions ("list"), GET
\* /api/admin/transactions/search by minAmount ("search"), GET
\* /api/admin/cache/stats, and POST /api/admin/cache/clear.  Each calls
\* validateAdminAuth first.
AdminRequest(id) ==
    /\ resp.n < MaxPosts
    /\ \E route \in {"detail", "list", "search", "cache/clear", "cache/stats"},
          providedKey \in {"none", "wrong-key", "change-this-key"} :
          LET auth == validateAdminAuth(providedKey)
              userDetails == decryptData(sessions[id].encryptedUserDetails)
              transactionDetails ==
                  decryptData(sessions[id].encryptedTransaction)
              answer(code, error, details) ==
                  [respond(route, id, code, error, "none")
                      EXCEPT !.apiKey = providedKey, !.userDetails = details]
          IN  IF ~auth.ok
              THEN /\ resp' = answer(auth.code, auth.error, None)
                   /\ UNCHANGED <<cache, sessions, txMetrics>>
              ELSE IF route = "detail"
              THEN /\ resp' =
                         IF ~exists(id)
                         THEN answer(404, "Transaction not found", None)
                         ELSE IF ~userDetails.ok \/ ~transactionDetails.ok
                         THEN answer(500, "Failed to decrypt transaction data",
                                     None)
                         ELSE answer(200, "none", userDetails.data)
                   /\ UNCHANGED <<cache, sessions, txMetrics>>
              ELSE IF route = "search"
              THEN /\ resp' = IF exists(id) /\ userDetails.ok
                              THEN answer(200, "none", userDetails.data)
                              ELSE answer(200, "none", None)
                   /\ UNCHANGED <<cache, sessions, txMetrics>>
              ELSE /\ cache' = IF route = "cache/clear" THEN None ELSE cache
                   /\ resp' = answer(200, "none", None)
                   /\ UNCHANGED <<sessions, txMetrics>>
    /\ UNCHANGED <<prIn, prOut, anIn, anOut, fetch>>
    /\ UNCHANGED <<variant, now, hits, misses, calls>>
    /\ UNCHANGED <<clock, encryptionKey, tasks, request, dailyTotals, created, pays>>

\* POST /api/transaction/:sessionId/status.  The store refuses an update
\* that holds an undefined value, so a request without paymentProof or
\* notes ends in the 500 of updateTransactionStatus.
StatusUpdate(id) ==
    /\ resp.n < MaxRequests
    /\ \E providedKey \in {"none", "wrong-key", "change-this-key"} :
          LET auth == validateAdminAuth(providedKey)
              answer(code, error, sessionId) ==
                  [respond("status-update", id, code, error, sessionId)
                      EXCEPT !.apiKey = providedKey]
          IN  IF ~auth.ok
              THEN /\ resp' = answer(auth.code, auth.error, "none")
                   /\ UNCHANGED <<sessions, txMetrics>>
              ELSE \E withNotes \in BOOLEAN,
                      status \in {"completed", "failed", "processing",
                                  "pending"} :
                      IF status \notin {"completed", "failed", "processing"}
                      THEN /\ resp' = answer(400, "Invalid status", "none")
                           /\ UNCHANGED <<sessions, txMetrics>>
                      ELSE IF ~withNotes
                      THEN /\ resp' =
                                 answer(500,
                                        "Failed to update transaction status",
                                        "none")
                           /\ UNCHANGED <<sessions, txMetrics>>
                      ELSE /\ sessions' =
                                 dbUpdate(id, statusUpdate(status,
                                     [paymentProof |-> "proof",
                                      notes |-> "notes",
                                      updatedBy |-> "admin"]))
                           /\ txMetrics' = metricsAfter(status)
                           /\ resp' = answer(200, "none", id)
    /\ UNCHANGED <<prIn, prOut, anIn, anOut, fetch>>
    /\ UNCHANGED aggVars
    /\ UNCHANGED <<clock, encryptionKey, tasks, request, dailyTotals, created, pays>>

\* GET /api/transaction/:sessionId
GetTransaction(id) ==
    /\ resp.n < MaxRequests
    /\ LET got == getTransactionSession(id)
       IN  resp' = IF got.ok THEN respond("transaction", id, 200, "none", id)
                   ELSE respond("transaction", id, got.code, got.error, "none")
    /\ UNCHANGED <<prIn, prOut, anIn, anOut, fetch>>
    /\ UNCHANGED aggVars
    /\ UNCHANGED <<clock, encryptionKey, tasks, request, dailyTotals, sessions,
                   created, txMetrics, pays>>

\* GET /api/payment/status/:sessionId, the polling endpoint
GetPaymentStatus(id) ==
    /\ resp.n < MaxRequests
    /\ resp' = IF exists(id) THEN respond("payment-status", id, 200, "none", id)
               ELSE respond("payment-status", id, 404, "Transaction not found",
                            "none")
    /\ UNCHANGED <<prIn, prOut, anIn, anOut, fetch>>
    /\ UNCHANGED aggVars
    /\ UNCHANGED <<clock, encryptionKey, tasks, request, dailyTotals, sessions,
                   created, txMetrics, pays>>

\* Mutant of isExpiredAt: a session that expires at the very time of the
\* run is kept
isExpiredAt_before(record, at) ==
    record.expiresAt = Null \/ record.expiresAt < at

\* orderByChild('expiresAt').endAt(now): a record without expiresAt sorts
\* before every number
isExpiredAt(record, at) == record.expiresAt = Null \/ record.expiresAt <= at

\* cleanupExpiredSessions, started by the 10-minute timer
Cleanup ==
    /\ \E id \in SessionIds : exists(id) /\ isExpiredAt(sessions[id], clock)
    /\ sessions' = [id \in SessionIds |->
                       IF exists(id) /\ isExpiredAt(sessions[id], clock)
                       THEN NoSession ELSE sessions[id]]
    /\ UNCHANGED <<prIn, prOut, anIn, anOut, fetch>>
    /\ UNCHANGED aggVars
    /\ UNCHANGED <<clock, encryptionKey, tasks, request, dailyTotals, created,
                   txMetrics, resp, pays>>

\* Time passes, by the time a session lives
ClockTick ==
    /\ clock + sessionTTL <= MaxClock
    /\ clock' = clock + sessionTTL
    /\ UNCHANGED <<prIn, prOut, anIn, anOut, fetch>>
    /\ UNCHANGED aggVars
    /\ UNCHANGED <<encryptionKey, tasks, request, dailyTotals, sessions, created,
                   txMetrics, resp, pays>>

\* A started server, with or without an encryption key in its environment
InitSession ==
    /\ PricingIdle
    /\ AnalyzeIdle
    /\ AggregatorIdle
    /\ fetch = FetchIdle
    /\ clock = 0
    /\ encryptionKey \in {"change-this-encryption-key", "secret"}
    /\ sessions = [id \in SessionIds |-> NoSession]
    /\ created = [id \in SessionIds |-> None]
    /\ txMetrics = NoTransactions
    /\ resp = NoResponse
    /\ pays = NoPayments
    /\ request = None
    /\ dailyTotals = NoTotals
    /\ tasks = NoTasks

NextSession ==
    \/ \E id \in SessionIds : Convert(id)
    \/ MarketRefresh
    \/ \E id \in SessionIds : Initialize(id)
    \/ \E id \in SessionIds : VerifyManual(id)
    \/ \E id \in SessionIds : Verify(id)
    \/ \E id \in SessionIds : Webhook(id)
    \/ \E id \in SessionIds : StatusUpdate(id)
    \/ \E id \in SessionIds : GetTransaction(id)
    \/ \E id \in SessionIds : GetPaymentStatus(id)
    \/ Cleanup
    \/ ClockTick

SpecSession == InitSession /\ [][NextSession]_vars

(***************************************************************************)
(* Claims about the transaction sessions                                   *)
(***************************************************************************)
\* The statuses the specification declares
C13_Declared == {"pending", "payment_initiated", "completed", "failed", "expired"}

\* How far a status is along Pending -> PaymentInitiated -> Completed |
\* Failed | Expired; a status outside the enum has no place
C13_Rank(status) ==
    IF status = "pending" THEN 0
    ELSE IF status = "payment_initiated" THEN 1
    ELSE 2

C13_Final == {"completed", "failed", "expired"}

\* C13: a session that was created keeps a declared status, and a request
\* never moves it back to an earlier status nor out of completed or failed,
\* whatever initialize, verify, verify-manual, webhook and status-update
\* requests are made.
C13_StatusOnlyMovesForward ==
    [][\A id \in SessionIds :
          (exists(id) /\ sessions[id].createdAt # Null /\ sessions'[id] # NoSession)
              => /\ sessions'[id].status \in C13_Declared
                 /\ C13_Rank(sessions'[id].status) >= C13_Rank(sessions[id].status)
                 /\ sessions[id].status \in C13_Final
                        => sessions'[id].status = sessions[id].status]_vars

\* The step is a payment request for session id over the given route, and
\* the session already holds a completion made over that route (a
\* verify-manual response names the session only when it completed it)
C14_AppliedAgain(id, route) ==
    /\ resp'.n = resp.n + 1
    /\ resp'.route = route
    /\ resp'.sid = id
    /\ exists(id)
    /\ sessions[id].createdAt # Null
    /\ sessions[id].status = "completed"
    /\ IF route = "webhook" THEN sessions[id].webhookReceivedAt # Null
       ELSE sessions[id].verifiedAt # Null

\* C14: applying the payment completion a second time, over the webhook or
\* over verify-manual, to a session completed under the same reference
\* leaves it completed and changes neither metrics.transactions.completed
\* nor metrics.transactions.pending.
C14_CompletionCountsOnce ==
    [][\A id \in SessionIds, route \in {"webhook", "verify-manual"} :
          ( /\ C14_AppliedAgain(id, route)
            /\ sessions'[id] # NoSession
            /\ sessions'[id].paystackReference = sessions[id].paystackReference
            /\ resp'.code = 200
            /\ route = "verify-manual" => resp'.sessionId = id )
              => /\ sessions'[id].status = "completed"
                 /\ txMetrics'.completed = txMetrics.completed
                 /\ txMetrics'.pending = txMetrics.pending]_vars

(***************************************************************************)
(* SpecPayRace: a verify-manual request and a webhook for the same session *)
(* run side by side.  Each handler runs up to its next await in one step;  *)
(* the store applies an update when it arrives and the handler goes on     *)
(* from there.  The session is made and initialized by whole requests.     *)
(***************************************************************************)
\* verify-manual up to `await paystackAPI.verifyTransaction(reference)`
ManualStart(id) ==
    /\ pays["verify-manual"].pc = "idle"
    /\ \E reference \in referencesFor(id) :
          pays' = [pays EXCEPT
                      !["verify-manual"] =
                          [pc |-> "verifying", sid |-> id,
                           reference |-> reference]]
    /\ UNCHANGED <<prIn, prOut, anIn, anOut, fetch>>
    /\ UNCHANGED aggVars
    /\ UNCHANGED <<clock, encryptionKey, tasks, request, dailyTotals, sessions,
                   created, txMetrics, resp>>

\* Paystack answers (or the request fails): verify-manual responds, or
\* sends its update and awaits it
ManualVerified ==
    LET ctx == pays["verify-manual"]
    IN  /\ ctx.pc = "verifying"
        /\ \E response \in GatewayAnswers :
              IF ~response.answered \/ ~response.status \/ response.data = None
              THEN /\ pays' = [pays EXCEPT
                                  !["verify-manual"] =
                                      [pc |-> "done", sid |-> ctx.sid,
                                       reference |-> ctx.reference,
                                       reported |-> "none",
                                       code |-> IF response.answered THEN 400
                                                ELSE 500]]
                   /\ resp' = respond("verify-manual", ctx.sid,
                                      IF response.answered THEN 400 ELSE 500,
                                      "Verification failed", "none")
              ELSE /\ pays' = [pays EXCEPT
                                  !["verify-manual"] =
                                      [pc |-> "writing", sid |-> ctx.sid,
                                       reference |-> ctx.reference,
                                       tx |-> response.data]]
                   /\ UNCHANGED resp
        /\ UNCHANGED <<prIn, prOut, anIn, anOut, fetch>>
        /\ UNCHANGED aggVars
        /\ UNCHANGED <<clock, encryptionKey, tasks, request, dailyTotals, sessions,
                       created, txMetrics>>

\* The store applies the update of verify-manual, which then responds
ManualWritten ==
    LET ctx == pays["verify-manual"]
    IN  /\ ctx.pc = "writing"
        /\ sessions' = dbUpdate(ctx.sid, manualUpdate(ctx.reference, ctx.tx))
        /\ pays' = [pays EXCEPT
                       !["verify-manual"] =
                           [pc |-> "done", sid |-> ctx.sid,
                            reference |-> ctx.reference,
                            reported |-> ctx.tx.status, code |-> 200]]
        /\ resp' = IF ctx.tx.status = "success"
                   THEN respond("verify-manual", ctx.sid, 200, "none", ctx.sid)
                   ELSE respond("verify-manual", ctx.sid, 200,
                                ctx.tx.gateway_response, "none")
        /\ UNCHANGED <<prIn, prOut, anIn, anOut, fetch>>
        /\ UNCHANGED aggVars
        /\ UNCHANGED <<clock, encryptionKey, tasks, request, dailyTotals, created,
                       txMetrics>>

\* The webhook up to the `await db...update(updates)` of
\* updateTransactionStatus, or to its response when there is no update
WebhookStart(id) ==
    /\ pays["webhook"].pc = "idle"
    /\ \E reference \in referencesFor(id), signed \in BOOLEAN,
          event \in {"charge.success", "charge.failed"} :
          IF ~signed \/ event # "charge.success"
          THEN /\ pays' = [pays EXCEPT
                              !["webhook"] =
                                  [pc |-> "done", sid |-> id,
                                   reference |-> reference,
                                   reported |-> "none",
                                   code |-> IF signed THEN 200 ELSE 400]]
               /\ resp' = respond("webhook", id, IF signed THEN 200 ELSE 400,
                                  "none", "none")
          ELSE /\ pays' = [pays EXCEPT
                              !["webhook"] =
                                  [pc |-> "writing", sid |-> id,
                                   reference |-> reference,
                                   updates |->
                                       statusUpdate("completed",
                                           webhookData(reference,
                                               [amount |-> 100000,
                                                channel |-> "card"]))]]
               /\ UNCHANGED resp
    /\ UNCHANGED <<prIn, prOut, anIn, anOut, fetch>>
    /\ UNCHANGED aggVars
    /\ UNCHANGED <<clock, encryptionKey, tasks, request, dailyTotals, sessions,
                   created, txMetrics>>

\* The store applies the update of the webhook; updateTransactionStatus
\* counts the completion and the webhook responds
WebhookWritten ==
    LET ctx == pays["webhook"]
    IN  /\ ctx.pc = "writing"
        /\ sessions' = dbUpdate(ctx.sid, ctx.updates)
        /\ txMetrics' = metricsAfter("completed")
        /\ pays' = [pays EXCEPT
                       !["webhook"] =
                           [pc |-> "done", sid |-> ctx.sid,
                            reference |-> ctx.reference,
                            reported |-> "success", code |-> 200]]
        /\ resp' = respond("webhook", ctx.sid, 200, "none", "none")
        /\ UNCHANGED <<prIn, prOut, anIn, anOut, fetch>>
        /\ UNCHANGED aggVars
        /\ UNCHANGED <<clock, encryptionKey, tasks, request, dailyTotals, created>>

NextPayRace ==
    \/ \E id \in SessionIds : Convert(id)
    \/ \E id \in SessionIds : Initialize(id)
    \/ \E id \in SessionIds : ManualStart(id)
    \/ ManualVerified
    \/ ManualWritten
    \/ \E id \in SessionIds : WebhookStart(id)
    \/ WebhookWritten

SpecPayRace == InitSession /\ [][NextPayRace]_vars

\* Both requests have ended, and both reported the payment of the same
\* reference as successful for session id
C15_BothReportedSuccess(id) ==
    /\ \A r \in PayRequests :
          /\ pays[r].pc = "done"
          /\ pays[r].sid = id
          /\ pays[r].reported = "success"
    /\ pays["verify-manual"].reference = pays["webhook"].reference

\* C15: however a verify-manual request and a charge.success webhook for the
\* same payment of a created session interleave, the session ends
\* completed with the paid reference stored, both requests are answered
\* with 200, and the completion is counted once.
C15_RaceEndsCompletedCountedOnce ==
    \A id \in SessionIds :
        (created[id] # None /\ C15_BothReportedSuccess(id))
          => /\ exists(id)
             /\ sessions[id].status = "completed"
             /\ sessions[id].paystackReference = pays["webhook"].reference
             /\ \A r \in PayRequests : pays[r].code = 200
             /\ txMetrics.completed = 1
             /\ txMetrics.pending = txMetrics.total - 1

\* The webhook was the first to write and verify-manual wrote after it
C15_WebhookThenManual ==
    \E id \in SessionIds :
        /\ created[id] # None
        /\ C15_BothReportedSuccess(id)
        /\ exists(id)
        /\ sessions[id].webhookReceivedAt # Null
        /\ sessions[id].verifiedAt # Null
        /\ resp.route = "verify-manual"

\* The record under id is one createTransactionSession stored
C16_Stored(id) == exists(id) /\ sessions[id].createdAt # Null

\* The financial fields of the record are the ones the pricing result and
\* the fees of its conversion give
C16_AsComputed(id) ==
    LET made == created[id]
        fees == calculateFees(<<100 * made.amount, made.competitive.targetRate>>)
        transaction == decryptData(sessions[id].encryptedTransaction)
        youGet == toFixed2(fees.netAmount)
    IN  /\ made # None
        /\ transaction.ok
        /\ transaction.data.amount = made.amount
        /\ transaction.data.exchangeRate.number =
               toFixed2(<<made.competitive.targetRate, 100>>)
        /\ transaction.data.youGet.number = youGet
        /\ transaction.data.feeCharged.percent = fees.feePercent
        /\ transaction.data.feeCharged.number = toFixed2(fees.feeAmount)
        /\ sessions[id].summary.amountNGN = made.amount
        /\ sessions[id].summary.amountINR = 100 * youGet[1] + youGet[2]

\* A step leaves the financial fields of a stored record as they are
C16_Kept(id) ==
    (C16_Stored(id) /\ sessions'[id] # NoSession)
        => /\ sessions'[id].encryptedTransaction = sessions[id].encryptedTransaction
           /\ sessions'[id].summary = sessions[id].summary

\* C16: the rate and the financial fields of a stored session are the ones
\* computed for its conversion by the pricing engine and the fee
\* calculator, and no later request or cache refresh changes them.
C16_FinancialFieldsLocked ==
    /\ [](\A id \in SessionIds : C16_Stored(id) => C16_AsComputed(id))
    /\ [][\A id \in SessionIds : C16_Kept(id)]_vars

\* A session was completed after the market moved away from the rate it
\* was created at
C16_CompletedAfterMarketMoved ==
    \E id \in SessionIds :
        /\ C16_Stored(id)
        /\ sessions[id].status = "completed"
        /\ cache # None
        /\ cache.value.rates.ngnRateWithMarkup # created[id].competitive.baseCost[1]

\* C17: the record createTransactionSession stores has status 'pending' and
\* expiresAt = createdAt + config.security.sessionTTL exactly, whatever time
\* passes between the steps of the creation.
C17_ExpiresExactlyTtlAfterCreation ==
    [][\A id \in SessionIds :
          (~exists(id) /\ sessions'[id] # NoSession
              /\ sessions'[id].createdAt # Null)
            => /\ sessions'[id].status = "pending"
               /\ sessions'[id].expiresAt = sessions'[id].createdAt + sessionTTL]_vars

\* The step is a POST /api/convert that ended in an error
C18_ConvertFailed ==
    /\ resp'.n = resp.n + 1
    /\ resp'.route = "convert"
    /\ resp'.code # 200

\* C18: a conversion whose session cannot be stored (the store refuses the
\* record, or no encryption key is configured) is answered with an error
\* that carries no sessionId, leaves no record, and leaves
\* metrics.transactions as it was.
C18_FailedCreationLeavesNothing ==
    /\ [](encryptionKey = "change-this-encryption-key"
            => /\ \A id \in SessionIds : ~C16_Stored(id) /\ created[id] = None
               /\ txMetrics.total = 0
               /\ resp.route = "convert" => resp.sessionId = "none")
    /\ [][C18_ConvertFailed
            => /\ resp'.sessionId = "none"
               /\ sessions' = sessions
               /\ created' = created
               /\ txMetrics' = txMetrics]_vars

\* A conversion failed at the store although the key is configured and the
\* market data was there
C18_StoreRefused ==
    /\ resp.route = "convert"
    /\ resp.error = "Transaction session creation failed"
    /\ encryptionKey = "secret"
    /\ \A id \in SessionIds : ~exists(id)
    /\ txMetrics = NoTransactions

\* C19: once the clock is past the expiresAt of a stored session, no
\* request changes its status or any other field of its record: the record
\* stays as it is until the cleanup deletes it.
C19_ExpiredSessionIsLeftAlone ==
    [][\A id \in SessionIds :
          (C16_Stored(id) /\ sessions[id].expiresAt < clock)
            => sessions'[id] \in {sessions[id], NoSession}]_vars

\* C20: a read or a payment initialization of a session that was created
\* and whose expiresAt is earlier than the time of the request is answered
\* with 410 'Session expired', also after the cleanup has run.
C20_ExpiredIsAnswered410 ==
    (resp.route \in {"transaction", "initialize"}
        /\ created[resp.sid] # None
        /\ created[resp.sid].expiresAt < resp.at)
      => resp.code = 410 /\ resp.error = "Session expired"

\* ---------------------------------------------------------------------------
\* Conversion requests: the body of POST /api/convert as it arrives
\* ---------------------------------------------------------------------------

\* config.limits
minTransaction == 1000
maxTransaction == 5000000
dailyLimit == 10000000

\* The bodies sent.  An amount is a JSON value: a number, a string (value
\* is the number the text spells, NaN when it spells none), or nothing.  In
\* the customer fields "none" is a field left out.  The recipient fields are
\* those createConversion() of the page puts in the body.  Every amount and
\* every currency pair comes from the page's customer, the other customers
\* and recipients with a valid amount, and 500 from a customer with an email.
ConvertRequests ==
    LET AmountInputs ==
            {[type |-> "number", value |-> v] :
                v \in {-5, 0, 500, minTransaction - 1, minTransaction,
                       maxTransaction, maxTransaction + 1}}
            \cup {[type |-> "string", value |-> 5000],
                  [type |-> "string", value |-> NaN],
                  [type |-> "undefined", value |-> NaN]}
        NoContact ==
            [customerName |-> "none", email |-> "none", phone |-> "none"]
        Contacts ==
            {NoContact,
             [NoContact EXCEPT !.email = "a@x.io"],
             [NoContact EXCEPT !.email = "A@x.io"],
             [NoContact EXCEPT !.email = "bad"],
             [NoContact EXCEPT !.phone = "08012345678"],
             [NoContact EXCEPT !.phone = "12"],
             [NoContact EXCEPT !.customerName = "A", !.email = "a@x.io"],
             [NoContact EXCEPT !.customerName = "A"]}
        Recipients ==
            {[receiveMethod |-> "UPI", upiId |-> "user@bank",
              bankAccount |-> "none", ifscCode |-> "none"],
             [receiveMethod |-> "UPI", upiId |-> "not a upi id",
              bankAccount |-> "none", ifscCode |-> "none"],
             [receiveMethod |-> "Bank Transfer", upiId |-> "none",
              bankAccount |-> "123456789", ifscCode |-> "ABCD0123456"],
             [receiveMethod |-> "Bank Transfer", upiId |-> "none",
              bankAccount |-> "1234", ifscCode |-> "ABCD1123456"]}
        Body(a, from, to, c, r) ==
            [amount |-> a, from |-> from, to |-> to,
             customerName |-> c.customerName, email |-> c.email,
             phone |-> c.phone, receiveMethod |-> r.receiveMethod,
             upiId |-> r.upiId, bankAccount |-> r.bankAccount,
             ifscCode |-> r.ifscCode]
        page == CHOOSE r \in Recipients : r.upiId = "user@bank"
        least == [type |-> "number", value |-> minTransaction]
        most == [type |-> "number", value |-> maxTransaction]
    IN  {Body(a, "NGN", "INR", NoContact, page) : a \in AmountInputs}
        \cup {Body(a, "USD", "INR", NoContact, page) : a \in {least, most}}
        \cup {Body(a, "NGN", "USD", NoContact, page) : a \in {least, most}}
        \cup {Body(least, "NGN", "INR", c, page) : c \in Contacts}
        \cup {Body(most, "NGN", "INR", c, page) :
                c \in {c \in Contacts : c.customerName = "none"
                                           /\ c.email \in {"none", "a@x.io"}}}
        \cup {Body(least, "NGN", "INR", NoContact, r) : r \in Recipients}
        \cup {Body([type |-> "number", value |-> 500], "NGN", "INR", c, page) :
                c \in {[NoContact EXCEPT !.email = "a@x.io"]}}

\* validators of the page: upiId, accountNumber and ifscCode, on the
\* field the chosen receive method asks for
recipientWellFormed(body) ==
    IF body.receiveMethod = "UPI" THEN body.upiId \in {"user@bank"}
    ELSE /\ body.bankAccount \in {"123456789"}
         /\ body.ifscCode \in {"ABCD0123456"}

\* normalizeEmail() lower-cases the address
normalizeEmail(email) == IF email = "A@x.io" THEN "a@x.io" ELSE email

\* validationResult(req).isEmpty() for the chain of POST /api/convert.
\* isNumeric takes the value turned into a string: digits with an optional
\* sign and decimal point.  isEmail accepts the two addresses of the sample.
validationPasses(body) ==
    /\ body.amount.type # "undefined" /\ body.amount.value # NaN
    /\ body.from = "NGN"
    /\ body.to = "INR"
    /\ body.email \in {"none", "a@x.io", "A@x.io"}

validateConversionRequest_noMaximum(amount, from, to) ==
    IF amount.type # "number" \/ amount.value = NaN
    THEN "Amount must be a valid number"
    ELSE IF amount.value <= 0 THEN "Amount must be greater than 0"
    ELSE IF amount.value < minTransaction
    THEN "Amount must be at least 1,000"
    ELSE IF from # "NGN" THEN "Only NGN source currency supported"
    ELSE IF to # "INR" THEN "Only INR target currency supported"
    ELSE "none"

validateConversionRequest_noMinimum(amount, from, to) ==
    IF amount.type # "number" \/ amount.value = NaN
    THEN "Amount must be a valid number"
    ELSE IF amount.value <= 0 THEN "Amount must be greater than 0"
    ELSE IF amount.value > maxTransaction
    THEN "Amount exceeds maximum limit of 5,000,000"
    ELSE IF from # "NGN" THEN "Only NGN source currency supported"
    ELSE IF to # "INR" THEN "Only INR target currency supported"
    ELSE "none"

\* The message of the ValidationError validateConversionRequest throws,
\* "none" when it returns true
validateConversionRequest(amount, from, to) ==
    IF amount.type # "number" \/ amount.value = NaN
    THEN "Amount must be a valid number"
    ELSE IF amount.value <= 0 THEN "Amount must be greater than 0"
    ELSE IF amount.value < minTransaction
    THEN "Amount must be at least 1,000"
    ELSE IF amount.value > maxTransaction
    THEN "Amount exceeds maximum limit of 5,000,000"
    ELSE IF from # "NGN" THEN "Only NGN source currency supported"
    ELSE IF to # "INR" THEN "Only INR target currency supported"
    ELSE "none"

\* validateUserDetails returns true: no entry in errors
validateUserDetails(details) ==
    /\ details.customerName # "A"
    /\ details.email \in {"none", "a@x.io", "A@x.io"}
    /\ details.phone \in {"none", "08012345678"}

\* checkFraudRisk: the risks found and the daily totals it leaves.  The
\* total is written whether or not the limit is exceeded.
checkFraudRisk(userDetails, transactionAmount) ==
    IF userDetails.email # "none" \/ userDetails.phone # "none"
    THEN LET identifier == IF userDetails.email # "none"
                           THEN userDetails.email ELSE userDetails.phone
             dailyTotal == dailyTotals[identifier]
         IN  [high |-> dailyTotal + transactionAmount > dailyLimit,
              totals |-> [dailyTotals EXCEPT
                            ![identifier] = dailyTotal + transactionAmount]]
    ELSE [high |-> FALSE, totals |-> dailyTotals]


\* POST /api/convert, any body.  A rejected request, next(error) with a
\* ValidationError, leaves the store, the cache and the counters as they
\* were.
PostConvert(id) ==
    /\ resp.n < MaxPosts
    /\ ~exists(id)
    /\ created[id] = None
    /\ \E body \in ConvertRequests :
          LET userDetails ==
                  [customerName |-> IF body.customerName = "none"
                                    THEN "Anonymous" ELSE body.customerName,
                   email |-> normalizeEmail(body.email),
                   phone |-> body.phone]
              invalid == validateConversionRequest(body.amount, body.from,
                                                   body.to)
              risks == checkFraudRisk(userDetails, body.amount.value)
              reject(error) ==
                  /\ resp' = respond("convert", id, 400, error, "none")
                  /\ UNCHANGED <<prIn, prOut, anIn, anOut, fetch>>
                  /\ UNCHANGED aggVars
                  /\ UNCHANGED <<clock, encryptionKey, sessions, created,
                                 txMetrics, pays>>
          IN  /\ request' = body
              /\ UNCHANGED tasks
              /\ IF ~validationPasses(body)
                 THEN /\ reject("Invalid input data")
                      /\ UNCHANGED dailyTotals
                 ELSE IF invalid # "none"
                 THEN /\ reject(invalid)
                      /\ UNCHANGED dailyTotals
                 ELSE IF /\ userDetails.email # "none"
                            \/ userDetails.phone # "none"
                         /\ ~validateUserDetails(userDetails)
                 THEN /\ reject("Invalid user details")
                      /\ UNCHANGED dailyTotals
                 ELSE /\ dailyTotals' = risks.totals
                      /\ IF risks.high
                         THEN reject("Transaction blocked due to security "
                                     \o "concerns")
                         ELSE quoteAndStore(id, body.amount.value,
                                            userDetails)

\* GET /api/rates: getMarketData, then calculateCompetitiveRate on the
\* snapshot; the call and the rate it returned are kept in prIn and prOut
GetRates ==
    /\ resp.n < MaxPosts
    /\ \E results \in MarketResults, k1 \in Draws, k2 \in Draws :
          LET hit == cacheGet # None
              marketData == IF hit THEN cacheGet
                            ELSE aggregate(results, misses + 1)
              rates == marketData.rates
          IN  /\ hits' = IF hit THEN hits + 1 ELSE hits
              /\ misses' = IF hit THEN misses ELSE misses + 1
              /\ cache' = IF hit THEN cache ELSE cacheAfter(marketData)
              /\ IF ~marketData.ok
                 THEN /\ resp' = respond("rates", "none", 503,
                                         marketData.error, "none")
                      /\ UNCHANGED <<prIn, prOut>>
                 ELSE /\ prIn' = [kind |-> "call",
                                  lowestInrRate |-> rates.p2pLowest,
                                  ngnRate |-> rates.ngnRateWithMarkup,
                                  coinGeckoInr |-> rates.coinGeckoInr,
                                  k1 |-> k1, k2 |-> k2]
                      /\ prOut' = calculateCompetitiveRate(
                                      rates.p2pLowest, rates.ngnRateWithMarkup,
                                      rates.coinGeckoInr, k1, k2)
                      /\ resp' = respond("rates", "none", 200, "none", "none")
    /\ UNCHANGED <<anIn, anOut, fetch>>
    /\ UNCHANGED <<variant, now, calls>>
    /\ UNCHANGED <<clock, encryptionKey, tasks, sessions, created, txMetrics, pays,
                   request, dailyTotals>>

NextConvert == \E id \in SessionIds : PostConvert(id)

\* The rates page, the anonymous conversion, the public read of a session
\* and the admin endpoints, side by side
NextService ==
    \/ GetRates
    \/ \E id \in SessionIds : Convert(id)
    \/ \E id \in SessionIds : GetTransaction(id)
    \/ \E id \in SessionIds : AdminRequest(id)
    \/ \E id \in SessionIds : StatusUpdate(id)

\* A started server; the customer of the sample may have converted earlier
\* in the day
InitConvert ==
    /\ PricingIdle
    /\ AnalyzeIdle
    /\ AggregatorIdle
    /\ fetch = FetchIdle
    /\ clock = 0
    /\ encryptionKey = "secret"
    /\ sessions = [id \in SessionIds |-> NoSession]
    /\ created = [id \in SessionIds |-> None]
    /\ txMetrics = NoTransactions
    /\ resp = NoResponse
    /\ pays = NoPayments
    /\ request = None
    /\ dailyTotals \in {NoTotals, [NoTotals EXCEPT !["a@x.io"] = 6000000]}
    /\ tasks = NoTasks

SpecConvert == InitConvert /\ [][NextConvert]_vars

SpecService == InitConvert /\ [][NextService]_vars

\* ---------------------------------------------------------------------------
\* Claims on conversion requests
\* ---------------------------------------------------------------------------

\* The amount is a number within the limits and the pair is NGN to INR
C21_WithinLimits(body) ==
    /\ body.amount.type = "number"
    /\ body.amount.value >= 1000
    /\ body.amount.value <= 5000000
    /\ body.from = "NGN"
    /\ body.to = "INR"

\* C21: POST /api/convert creates a session only for a body whose amount is
\* a number between the minimum and the maximum and whose currencies are
\* NGN and INR; any other body is answered 400 and no session is created
\* and no transaction counted.
C21_OnlyValidRequestsCreateSessions ==
    request # None =>
        /\ (\E id \in SessionIds : exists(id)) => C21_WithinLimits(request)
        /\ ~C21_WithinLimits(request) =>
              /\ resp.route = "convert"
              /\ resp.code = 400
              /\ resp.sessionId = "none"
              /\ \A id \in SessionIds : ~exists(id) /\ created[id] = None
              /\ txMetrics = NoTransactions

\* An amount one above the maximum was refused
C21_JustAboveMaximumRefused ==
    /\ request # None
    /\ request.amount = [type |-> "number", value |-> maxTransaction + 1]
    /\ resp.code = 400
    /\ \A id \in SessionIds : ~exists(id)

\* The body asks for NGN to INR with an amount above 0 and below 1000
C22_BelowMinimum(body) ==
    /\ body.amount.type = "number"
    /\ body.amount.value > 0
    /\ body.amount.value < 1000
    /\ body.from = "NGN"
    /\ body.to = "INR"
    /\ body.email \in {"none", "a@x.io"}

C23_SessionsOnlyForWellFormedRecipients ==
    \A id \in SessionIds :
        (request # None /\ exists(id)) => recipientWellFormed(request)

\* C24: while one market snapshot is cached, the rate POST /api/convert
\* quotes equals the rate GET /api/rates returns: on the same snapshot
\* every call of calculateCompetitiveRate yields the same targetRate.
\* (misses = 1: a single snapshot was ever fetched, so both used it.)
C24_ConvertQuotesTheRateOfRates ==
    \A id \in SessionIds :
        (created[id] # None /\ prOut # None /\ misses = 1)
            => created[id].competitive.targetRate = prOut.targetRate

(***************************************************************************)
(* SpecFees: one call of calculateFees on an amount at, just below or just *)
(* above a tier maximum, whole or with a fractional part.                  *)
(***************************************************************************)

\* How far from a tier maximum the amounts go, in units of the denominator
MaxOffset == 3

FeesCall ==
    /\ prIn = None
    /\ \E b \in {1, 10000, 50000, 100000, 500000, 600000},
          d \in {1, 3, 7}, e \in -MaxOffset .. MaxOffset :
          LET amount == <<b * d + e, d>>
          IN  /\ amount[1] > 0
              /\ prIn' = [kind |-> "fees", amount |-> amount]
              /\ prOut' = calculateFees(amount)
    /\ UNCHANGED <<anIn, anOut>>
    /\ UNCHANGED aggVars
    /\ UNCHANGED otherVars

NextFees == FeesCall

SpecFees == InitPricing /\ [][NextFees]_vars

\* The first tier whose max is at least the amount (Infinity is at least
\* every amount)
C25_Covers(i, amount) ==
    feeTiers[i].max = Infinity \/ amount[1] <= feeTiers[i].max * amount[2]

C25_FirstTier(amount) ==
    CHOOSE i \in 1 .. Len(feeTiers) :
        /\ C25_Covers(i, amount)
        /\ \A j \in 1 .. i - 1 : ~C25_Covers(j, amount)

\* C25: calculateFees applies the percent of the first tier whose max is at
\* least the amount: an amount exactly at a tier's max gets that tier's
\* percent, one unit above it the next tier's, and the last tier's Infinity
\* makes every amount match some tier.
C25_FeeOfFirstCoveringTier ==
    prOut # None =>
        LET amount == prIn.amount
        IN  /\ \E i \in 1 .. Len(feeTiers) : C25_Covers(i, amount)
            /\ prOut.feePercent = feeTiers[C25_FirstTier(amount)].percent
            /\ \A i \in 1 .. Len(feeTiers) - 1 :
                  /\ amount = <<feeTiers[i].max, 1>>
                        => prOut.feePercent = feeTiers[i].percent
                  /\ amount = <<feeTiers[i].max + 1, 1>>
                        => prOut.feePercent = feeTiers[i + 1].percent

\* 50000, the second tier's maximum, was charged 2%
C25_AtSecondMaximum ==
    /\ prOut # None
    /\ prIn.amount = <<50000, 1>>
    /\ prOut.feePercent = 8

\* A rational in lowest terms
C26_Reduced(r) ==
    LET g == Gcd(r[1], r[2]) IN <<r[1] \div g, r[2] \div g>>

\* a + b for two rationals where b's denominator divides a's
C26_Sum(a, b) == <<a[1] + b[1] * (a[2] \div b[2]), a[2]>>

\* C26: calculateFees returns netAmount + feeAmount = amount (exactly, hence
\* within rounding to 2 decimals) and feeAmount = amount * feePercent / 100
\* (feePercent is in quarters of a percent, so the divisor is 400).
C26_NetPlusFeeIsAmount ==
    prOut # None =>
        LET amount == prIn.amount
        IN  /\ prOut.netAmount[2] % prOut.feeAmount[2] = 0
            /\ C26_Reduced(C26_Sum(prOut.netAmount, prOut.feeAmount))
                  = C26_Reduced(amount)
            /\ C26_Reduced(prOut.feeAmount)
                  = C26_Reduced(<<amount[1] * prOut.feePercent,
                                  amount[2] * 400>>)

\* A third under 10000: the fee is 2.5% of it and the rest is paid out
C26_FractionalAmountSplit ==
    /\ prOut # None
    /\ prIn.amount = <<29999, 3>>
    /\ C26_Reduced(prOut.feeAmount) = <<29999, 120>>
    /\ C26_Reduced(prOut.netAmount) = <<389987, 40>>

\* The least and the greatest price of result.topAds, in units of 1/Grid
C27_MinPrice(result) ==
    Grid * (CHOOSE p \in {result.topAds[i].price : i \in DOMAIN result.topAds} :
               \A i \in DOMAIN result.topAds : p <= result.topAds[i].price)

C27_MaxPrice(result) ==
    Grid * (CHOOSE p \in {result.topAds[i].price : i \in DOMAIN result.topAds} :
               \A i \in DOMAIN result.topAds : p >= result.topAds[i].price)

\* simpleAvg is the mean of the topAds prices, to the nearest 1/Grid, and
\* lies between the least and the greatest of them
C27_SimpleAvgIsMean(result) ==
    LET n == Len(result.topAds)
        sum == sumOf([i \in 1 .. n |-> result.topAds[i].price])
    IN  /\ 2 * n * result.simpleAvg >= 2 * Grid * sum - n
        /\ 2 * n * result.simpleAvg <= 2 * Grid * sum + n
        /\ result.simpleAvg >= C27_MinPrice(result)
        /\ result.simpleAvg <= C27_MaxPrice(result)

C28_NoUpstreamBodyInErrorResponse ==
    (fetch.pc = "answered" /\ fetch.response.code = 503) =>
        /\ fetch.response.type = "external_api_error"
        /\ \A i \in 1 .. Len(fetch.response.errors) :
              /\ fetch.response.errors[i].error # "upstream body"
              /\ fetch.result.status = "rejected"
              /\ fetch.response.errors[i].error = fetch.result.reason.message
              /\ fetch.response.errors[i].source = "binanceP2P"
        /\ fetch.response.error # "upstream body"
        /\ fetch.response.recommendation
              \in {"none", "Try again in a few moments"}

\* The order book answered 500 five times, body included, and the request
\* was answered 503
C28_Http500Answered ==
    /\ fetch.pc = "answered"
    /\ fetch.response.code = 503
    /\ fetch.result.status = "rejected"
    /\ fetch.result.reason.body = "upstream body"
    /\ Len(fetch.response.errors) = 1

\* ---------------------------------------------------------------------
\* Admin gate

C29_AdminRoutes ==
    {"detail", "list", "search", "cache/clear", "cache/stats", "status-update"}

C29_DetailsOnlyAfterAuth ==
    resp.userDetails # None =>
        /\ resp.route \in {"detail", "search"}
        /\ resp.apiKey = "change-this-key"

C29_RefusedWithoutEffect ==
    (/\ resp'.n = resp.n + 1
     /\ resp'.route \in C29_AdminRoutes
     /\ resp'.apiKey # "change-this-key")
        => /\ resp'.code = 401
           /\ resp'.error = "Unauthorized"
           /\ resp'.userDetails = None
           /\ UNCHANGED <<cache, hits, misses, sessions, txMetrics, created,
                          pays, dailyTotals>>

\* C29: a response holds decrypted user details only when it comes from an
\* admin endpoint (transaction detail or search) asked with the configured
\* admin key, and every admin endpoint (cache clear and stats, transaction
\* detail, list, search, status update) asked with no key or another key
\* answers 401 "Unauthorized" and leaves the cache and the sessions as
\* they were.
C29_AdminGate ==
    /\ []C29_DetailsOnlyAfterAuth
    /\ [][C29_RefusedWithoutEffect]_vars

\* A stored session whose details decrypt is asked for with a wrong key
C29_WrongKeyRefused ==
    /\ resp.route = "detail"
    /\ resp.apiKey = "wrong-key"
    /\ resp.code = 401
    /\ exists(resp.sid)
    /\ decryptData(sessions[resp.sid].encryptedUserDetails).ok
    /\ cache # None

\* ---------------------------------------------------------------------
\* Backoff of retryableRequest

\* The k-th wait is the base delay for k = 1 and twice the wait before it
\* after that
C30_DelaysDouble ==
    fetch.pc # "idle" =>
        \A k \in 1 .. Len(fetch.delays) :
            fetch.delays[k] = IF k = 1 THEN retryDelay
                              ELSE 2 * fetch.delays[k - 1]

\* One wait per failed attempt but the last: in a wait every attempt so
\* far failed and each was followed by a wait; at the end the last attempt,
\* a success or the failure of attempt maxRetries, is followed by none
C30_WaitsOnlyBetweenAttempts ==
    /\ fetch.pc = "backoff" =>
          /\ Len(fetch.delays) = Len(fetch.log)
          /\ Len(fetch.log) < maxRetries
          /\ \A k \in 1 .. Len(fetch.log) : fetch.log[k].status = "rejected"
    /\ fetch.pc = "request" => Len(fetch.delays) = Len(fetch.log)
    /\ fetch.pc \in {"done", "answered"} =>
          /\ Len(fetch.delays) = Len(fetch.log) - 1
          /\ \A k \in 1 .. Len(fetch.delays) :
                fetch.log[k].status = "rejected"
          /\ fetch.log[Len(fetch.log)].status = "rejected"
                => (~isRetried(fetch.fn) \/ Len(fetch.log) = maxRetries)

\* During a wait the pending spot and reference fetches can settle and a
\* request can start its aggregation
C30_OthersKeepRunning ==
    fetch.pc = "backoff" =>
        /\ \A c \in Serial :
              calls[c].pc = "fetching" =>
                  /\ calls[c].results[1] = Pending => ENABLED SpotSettles(c)
                  /\ calls[c].results[2] = Pending
                        => ENABLED CoinGeckoSettles(c)
        /\ \A c \in Callers :
              (calls[c].pc = "idle" /\ misses < MaxMisses)
                  => ENABLED GetMarketDataMiss(c, "rates")

\* C30: retryableRequest waits retryDelay * 2^(k-1) between failed attempt
\* k and attempt k+1, waits neither after a success nor after the last
\* failed attempt, and while it waits the spot and reference fetches and
\* other requests can take their steps.
C30_ExponentialBackoff ==
    /\ C30_DelaysDouble
    /\ C30_WaitsOnlyBetweenAttempts
    /\ C30_OthersKeepRunning

\* The order-book fetch is in its fourth wait, 8 times the base delay,
\* while the spot fetch of the aggregation has settled, the reference fetch
\* is pending and a second request has started
C30_FourthWaitWithOthersUnderWay ==
    /\ fetch.pc = "backoff"
    /\ fetch.fn = "fetchBinanceP2P"
    /\ Len(fetch.delays) = maxRetries - 1
    /\ fetch.delays[maxRetries - 1] = 8 * retryDelay
    /\ calls[1].pc = "fetching"
    /\ calls[1].results[1] # Pending
    /\ calls[1].results[2] = Pending
    /\ calls[2].pc = "fetching"

\* ---------------------------------------------------------------------
\* The parsing loop of analyzeP2P

\* What the loop is said to skip: no adv or advertiser block, a price that
\* is not finite or not positive, a quantity that is not a number
C31_Skipped(item) ==
    \/ ~item.hasBlocks
    \/ item.price \in {NaN, Infinity}
    \/ item.price <= 0
    \/ item.qty = NaN

\* C31: analyzeP2P skips every entry without the adv or advertiser block,
\* with a non-finite or non-positive price or a non-numeric quantity:
\* totalAds is the number of the other entries, only those appear in
\* topAds, and the analysis fails with 'No valid P2P ads found' exactly
\* when there is no other entry.
C31_SkipsInvalidEntries ==
    anOut # None =>
        LET remaining == SelectSeq(anIn.data, LAMBDA item : ~C31_Skipped(item))
        IN  /\ anOut.ok =>
                  /\ anOut.totalAds = Len(remaining)
                  /\ \A i \in DOMAIN anOut.topAds :
                        \E k \in DOMAIN remaining :
                            remaining[k].userNo = anOut.topAds[i].userNo
            /\ (~anOut.ok /\ anOut.error = "No valid P2P ads found")
                  <=> Len(remaining) = 0

(***************************************************************************)
(* Pricing engine, strict server (src/unnamed/part_002).  Rates are not    *)
(* rounded there: a rate is the rational <<num, den>> over the common      *)
(* denominator 1000 * lowestInrRate * RandomSteps.                         *)
(***************************************************************************)

\* calculateCompetitiveRate(lowestInrRate, ngnRate) with Math.random() =
\* k / RandomSteps; minProfitMargin 0.5, discountMin 0.20, discountMax
\* 0.40, localRateMax 16.5
calculateCompetitiveRateStrict(lowestInrRate, ngnRate, k) ==
    LET den == 1000 * lowestInrRate * RandomSteps
        baseCostPerInr == 1000 * ngnRate * RandomSteps
        rateWithProfit == 1005 * ngnRate * RandomSteps
        \* randomAdjustment * 0.1 = 0.02 + (k / RandomSteps) * 0.02
        adjustment == 20 * lowestInrRate * RandomSteps + 20 * k * lowestInrRate
        rate1 == rateWithProfit + adjustment
        rate2 == IF rate1 > 16500 * lowestInrRate * RandomSteps
                 THEN 16400 * lowestInrRate * RandomSteps
                 ELSE rate1
        finalRate == IF rate2 < rateWithProfit THEN rateWithProfit ELSE rate2
        profitMargin == <<100 * (finalRate - baseCostPerInr), finalRate>>
    IN  IF RatLess(profitMargin, 1, 2)
        THEN [ok |-> FALSE, code |-> 503,
              error |-> "Insufficient profit margin - rates unfavorable",
              profitMargin |-> profitMargin]
        ELSE [ok |-> TRUE, baseCost |-> <<baseCostPerInr, den>>,
              targetRate |-> <<finalRate, den>>,
              profitMargin |-> profitMargin]

\* One call on a lowest P2P price within the filter's bounds and a marked-up
\* NGN rate
StrictRateCall ==
    /\ prIn = None
    /\ \E l \in {70, 80, 88, 90, 95, 100, 110, 120}, n \in NgnRates,
          k \in 0 .. RandomSteps - 1 :
          /\ prIn' = [kind |-> "strict", lowestInrRate |-> l, ngnRate |-> n,
                      k |-> k]
          /\ prOut' = calculateCompetitiveRateStrict(l, n, k)
    /\ UNCHANGED <<anIn, anOut>>
    /\ UNCHANGED aggVars
    /\ UNCHANGED otherVars

SpecStrictPricing == InitPricing /\ [][StrictRateCall]_vars

\* finalRate was raised to baseCostPerInr * 1.005: the rate after the cap
\* at localRateMax was below it
C32_Forced ==
    LET l == prIn.lowestInrRate
        drawn == 1005 * prIn.ngnRate * RandomSteps
                    + 20 * l * RandomSteps + 20 * prIn.k * l
        capped == IF drawn > 16500 * l * RandomSteps
                  THEN 16400 * l * RandomSteps ELSE drawn
    IN  capped < 1005 * prIn.ngnRate * RandomSteps

\* C32: whenever the strict calculateCompetitiveRate raises finalRate to
\* baseCostPerInr * 1.005 the profit margin is at least 0.5 and the call
\* returns a rate; on every path the call returns a result whose
\* profitMargin is at least minProfitMargin (0.5) or rejects with 503.
C32_ForcedRateIsReturned ==
    prOut # None =>
        /\ C32_Forced => (prOut.ok /\ RatAtLeast(prOut.profitMargin, 1, 2))
        /\ prOut.ok => RatAtLeast(prOut.profitMargin, 1, 2)
        /\ ~prOut.ok => prOut.code = 503

\* ---------------------------------------------------------------------
\* The strict server's getMarketData (Spec with variant = "strict")

\* A call whose three fetches have settled and whose aggregation has run
C33_Aggregated(c) ==
    /\ calls[c].pc \in {"returned", "failed"}
    /\ "results" \in DOMAIN calls[c]

\* The reference fetch failed or returned no NGN rate
C33_NoNgn(r) == IF r.status = "fulfilled" THEN r.value.ngn = Null ELSE TRUE

\* The strict aggregation fails for want of an NGN rate with the NGN
\* message when it has P2P data and with the P2P message when it has not;
\* a snapshot holds the fetched NGN rate plus the markup; with P2P data
\* and an NGN rate the outcome is that of analyzeP2P, whatever the spot
\* fetch did
C33_Outcome(noNgnError(_)) ==
    variant = "strict" =>
        \A c \in Callers :
            C33_Aggregated(c) =>
                LET results == calls[c].results
                    result == calls[c].result
                IN  /\ C33_NoNgn(results[2]) =>
                          /\ calls[c].pc = "failed"
                          /\ result.error = noNgnError(results)
                    /\ result.ok =>
                          /\ result.rates.coinGeckoNgn > 0
                          /\ result.rates.ngnRateWithMarkup =
                                result.rates.coinGeckoNgn + ngnMarkup
                    /\ (results[3].status = "fulfilled"
                            /\ ~C33_NoNgn(results[2]))
                          => result.ok = analyzeP2P(results[3].value).ok

\* An aggregation that fails stores nothing
C33_FailureStoresNothing ==
    \A c \in Callers :
        (calls[c].pc = "fetching" /\ calls'[c].pc = "failed")
            => cache' = cache

\* C33 as stated: in the strict variant a reference fetch that fails or
\* returns no NGN rate makes getMarketData raise 'Critical: NGN rate
\* unavailable', nothing is cached, no fallback constant is used, and a
\* failure of the spot fetch alone never fails the aggregation.
C33_StrictNeedsNgnRate ==
    /\ []C33_Outcome(LAMBDA results : "Critical: NGN rate unavailable")
    /\ [][C33_FailureStoresNothing]_vars

\* C33, amended: the error is 'Critical: NGN rate unavailable' when the
\* P2P fetch succeeded and 'Critical: P2P data unavailable' when it failed
\* too; the rest as stated.
C33_StrictNeedsNgnRateAfterP2P ==
    /\ []C33_Outcome(LAMBDA results :
            IF results[3].status = "fulfilled"
            THEN "Critical: NGN rate unavailable"
            ELSE "Critical: P2P data unavailable")
    /\ [][C33_FailureStoresNothing]_vars

\* The reference source answered without an NGN rate, spot and P2P
\* succeeded: the strict call failed
C33_NoNgnRateFailed ==
    /\ variant = "strict"
    /\ C33_Aggregated(1)
    /\ calls[1].results[1].status = "fulfilled"
    /\ calls[1].results[2].status = "fulfilled"
    /\ calls[1].results[2].value.ngn = Null
    /\ calls[1].results[3] = Fulfilled(GoodListing)
    /\ calls[1].pc = "failed"
    /\ cache = None

(***************************************************************************)
(* SpecDaily: POST /api/convert requests of one customer (the same email)  *)
(* served at the same time.  A handler runs from one await to the next:    *)
(* up to the read of the daily total, from the answer of the read to the   *)
(* write of the new total, and from there to its response.                 *)
(***************************************************************************)

\* The session id uuidv4() gives each request
PostIds == <<"s1", "s2", "s3">>

\* Validation passes and checkFraudRisk asks the store for the daily total
PostStart(r) ==
    /\ tasks.posts[r].pc = "idle"
    /\ \E amount \in {maxTransaction \div 2, maxTransaction} :
          tasks' = [tasks EXCEPT !.posts[r] =
                      [pc |-> "reading", amount |-> amount,
                       userDetails |-> [customerName |-> "Anonymous",
                                        email |-> "a@x.io",
                                        phone |-> "none"]]]
    /\ UNCHANGED <<prIn, prOut, anIn, anOut, fetch>>
    /\ UNCHANGED aggVars
    /\ UNCHANGED <<clock, encryptionKey, sessions, created, txMetrics, resp,
                   pays, request, dailyTotals>>

\* The store answers: snapshot.val() || 0
FraudRead(r) ==
    /\ tasks.posts[r].pc = "reading"
    /\ tasks' = [tasks EXCEPT !.posts[r] =
                    [pc |-> "read", amount |-> tasks.posts[r].amount,
                     userDetails |-> tasks.posts[r].userDetails,
                     dailyTotal |->
                         dailyTotals[tasks.posts[r].userDetails.email]]]
    /\ UNCHANGED <<prIn, prOut, anIn, anOut, fetch>>
    /\ UNCHANGED aggVars
    /\ UNCHANGED <<clock, encryptionKey, sessions, created, txMetrics, resp,
                   pays, request, dailyTotals>>

\* checkFraudRisk goes on with the total it read: the limit test, and the
\* write of dailyTotal + transactionAmount
FraudWrite(r) ==
    /\ tasks.posts[r].pc = "read"
    /\ LET post == tasks.posts[r]
       IN  /\ dailyTotals' =
                 [dailyTotals EXCEPT ![post.userDetails.email] =
                    post.dailyTotal + post.amount]
           /\ tasks' = [tasks EXCEPT !.posts[r] =
                          [pc |-> "checked", amount |-> post.amount,
                           userDetails |-> post.userDetails,
                           high |-> post.dailyTotal + post.amount
                                        > dailyLimit]]
    /\ UNCHANGED <<prIn, prOut, anIn, anOut, fetch>>
    /\ UNCHANGED aggVars
    /\ UNCHANGED <<clock, encryptionKey, sessions, created, txMetrics, resp,
                   pays, request>>

\* The handler after checkFraudRisk: the block on a high risk, or market
\* data, rate, fees and the session
PostFinish(r) ==
    /\ tasks.posts[r].pc = "checked"
    /\ tasks' = [tasks EXCEPT !.posts[r] = [pc |-> "done"]]
    /\ IF tasks.posts[r].high
       THEN /\ resp' = respond("convert", PostIds[r], 400,
                               "Transaction blocked due to security concerns",
                               "none")
            /\ UNCHANGED <<prIn, prOut, anIn, anOut, fetch>>
            /\ UNCHANGED aggVars
            /\ UNCHANGED <<clock, encryptionKey, sessions, created,
                           txMetrics, pays>>
       ELSE quoteAndStore(PostIds[r], tasks.posts[r].amount,
                          tasks.posts[r].userDetails)
    /\ UNCHANGED <<request, dailyTotals>>

InitDaily ==
    /\ PricingIdle
    /\ AnalyzeIdle
    /\ AggregatorIdle
    /\ fetch = FetchIdle
    /\ clock = 0
    /\ encryptionKey = "secret"
    /\ sessions = [id \in {PostIds[r] : r \in Posters} |-> NoSession]
    /\ created = [id \in {PostIds[r] : r \in Posters} |-> None]
    /\ txMetrics = NoTransactions
    /\ resp = NoResponse
    /\ pays = NoPayments
    /\ request = None
    /\ dailyTotals = NoTotals
    /\ tasks = NoTasks

NextDaily ==
    \/ \E r \in Posters : PostStart(r)
    \/ \E r \in Posters : FraudRead(r)
    \/ \E r \in Posters : FraudWrite(r)
    \/ \E r \in Posters : PostFinish(r)

SpecDaily == InitDaily /\ [][NextDaily]_vars

\* The amounts of the sessions created for the customer
RECURSIVE C34_Created(_)
C34_Created(ids) ==
    IF ids = {} THEN 0
    ELSE LET id == CHOOSE i \in ids : TRUE
         IN  (IF created[id] # None THEN created[id].amount ELSE 0)
                + C34_Created(ids \ {id})

\* C34: however POST /api/convert requests with the same email interleave,
\* the amounts of the sessions created for that email on one day sum to
\* no more than config.limits.dailyLimit.
C34_DailyLimitHolds == C34_Created(DOMAIN created) <= dailyLimit

\* The identifier checkFraudRisk files a request under: the (normalized)
\* email, else the phone, else none
C35_IdentifierOf(body) ==
    IF body.email # "none" THEN normalizeEmail(body.email) ELSE body.phone

\* The amount of the session a step creates for the identifier, 0 when it
\* creates none
C35_CreatedFor(identifier) ==
    IF \E id \in SessionIds :
          /\ created[id] = None
          /\ created'[id] # None
          /\ C35_IdentifierOf(request') = identifier
    THEN request'.amount.value
    ELSE 0

\* C35: a conversion request that ends in an error leaves the daily total
\* of its identifier unchanged, and one that creates a session adds its
\* amount: the total is always the sum of the amounts of the sessions
\* created for the identifier that day.
C35_TotalFollowsSessions ==
    [][\A identifier \in Identifiers :
          dailyTotals'[identifier]
              = dailyTotals[identifier] + C35_CreatedFor(identifier)]_vars

(***************************************************************************)
(* SpecInitRace: POST /api/payment/initialize requests for the same        *)
(* session side by side.  A handler runs from one await to the next: up to *)
(* the read of getTransactionSession, from the session it got to the       *)
(* update it sends, and from the applied update to its response.  The      *)
(* session is made by a whole conversion request.                          *)
(***************************************************************************)

\* The request arrives with a sessionId; getTransactionSession asks the
\* store for the record
InitStart(r, id) ==
    /\ tasks.inits[r].pc = "idle"
    /\ tasks' = [tasks EXCEPT !.inits[r] = [pc |-> "reading", sid |-> id]]
    /\ UNCHANGED <<prIn, prOut, anIn, anOut, fetch>>
    /\ UNCHANGED aggVars
    /\ UNCHANGED <<clock, encryptionKey, sessions, created, txMetrics, resp,
                   pays, request, dailyTotals>>

\* The store answers: getTransactionSession throws or returns the session;
\* the handler refuses a status other than 'pending', else makes the
\* reference (the mock branch answers at once) and sends the update
InitRead(r) ==
    /\ tasks.inits[r].pc = "reading"
    /\ LET id == tasks.inits[r].sid
           got == getTransactionSession(id)
       IN  IF ~got.ok
           THEN /\ resp' = respond("initialize", id, got.code, got.error,
                                   "none")
                /\ tasks' = [tasks EXCEPT !.inits[r] =
                                [pc |-> "done", sid |-> id,
                                 code |-> got.code,
                                 reference |-> NoReference]]
           ELSE IF got.session.status # "pending"
           THEN /\ resp' = respond("initialize", id, 400,
                                   "Transaction already "
                                       \o got.session.status, "none")
                /\ tasks' = [tasks EXCEPT !.inits[r] =
                                [pc |-> "done", sid |-> id, code |-> 400,
                                 reference |-> NoReference]]
           ELSE /\ resp' = resp
                /\ tasks' = [tasks EXCEPT !.inits[r] =
                                [pc |-> "writing", sid |-> id,
                                 reference |-> referenceOf(id, clock),
                                 at |-> clock]]
    /\ UNCHANGED <<prIn, prOut, anIn, anOut, fetch>>
    /\ UNCHANGED aggVars
    /\ UNCHANGED <<clock, encryptionKey, sessions, created, txMetrics, pays,
                   request, dailyTotals>>

\* The store applies the update and the handler answers with the reference
InitWritten(r) ==
    /\ tasks.inits[r].pc = "writing"
    /\ LET init == tasks.inits[r]
       IN  /\ sessions' = dbUpdate(init.sid,
                                 [paystackReference |-> init.reference,
                                  paystackInitializedAt |-> init.at,
                                  status |-> "payment_initiated"])
           /\ resp' = respond("initialize", init.sid, 200, "none", init.sid)
           /\ tasks' = [tasks EXCEPT !.inits[r] =
                           [pc |-> "done", sid |-> init.sid, code |-> 200,
                            reference |-> init.reference]]
    /\ UNCHANGED <<prIn, prOut, anIn, anOut, fetch>>
    /\ UNCHANGED aggVars
    /\ UNCHANGED <<clock, encryptionKey, created, txMetrics, pays, request,
                   dailyTotals>>

NextInitRace ==
    \/ \E id \in SessionIds : Convert(id)
    \/ ClockTick
    \/ \E r \in Initiators, id \in SessionIds : InitStart(r, id)
    \/ \E r \in Initiators : InitRead(r)
    \/ \E r \in Initiators : InitWritten(r)

SpecInitRace == InitSession /\ [][NextInitRace]_vars

\* C36: of the initialize requests for one session at most one succeeds,
\* whatever their interleaving, so at most one payment reference is
\* issued for the session.
C36_AtMostOneInitializes ==
    \A id \in SessionIds :
        Cardinality({r \in Initiators :
                        /\ tasks.inits[r].pc = "done"
                        /\ tasks.inits[r].sid = id
                        /\ tasks.inits[r].code = 200}) <= 1

\* C37: metrics.transactions.pending is never negative and total is the
\* sum of pending, completed and failed, after any sequence of session
\* creations and status updates.
C37_MetricsBalance ==
    /\ txMetrics.pending >= 0
    /\ txMetrics.total
           = txMetrics.pending + txMetrics.completed + txMetrics.failed

\* C38: the customer rate calculateCompetitiveRate returns is never below
\* the P2P cost ngnRate / lowestInrRate of the snapshot it was called
\* with, on the CoinGecko fallback path as on the others.
C38_RateCoversP2PCost ==
    prIn # None
        => prOut.targetRate * prIn.lowestInrRate >= 100 * prIn.ngnRate

(***************************************************************************)
(* SpecPoll: pollPaymentStatus on the payment page.  The interval timer    *)
(* starts a status check every 2 s whether or not the earlier ones have    *)
(* been answered; each answer runs the rest of checkStatus in one step.    *)
(***************************************************************************)
\* maxAttempts as the page is followed with, and the status checks that may
\* be awaiting their answer at one time
MaxAttempts == 5
MaxInFlight == 3

\* What a status check ends with: data.status, or a thrown error
StatusAnswers == {"pending", "payment_initiated", "completed", "failed",
                  "error"}

\* setInterval(checkStatus, 2000); checkStatus(): the timer is set and the
\* first check is under way
Polling ==
    [pc |-> "polling", interval |-> TRUE, attempts |-> 0, inFlight |-> 1,
     success |-> 0, failure |-> 0, timeout |-> 0]

\* pollPaymentStatus is called: with a reference the page of convert/app.js
\* first awaits POST /api/payment/verify-manual, else polling starts
PollStart ==
    /\ tasks.poll.pc = "idle"
    /\ \E paymentReference \in BOOLEAN :
          tasks' = [tasks EXCEPT !.poll =
                      IF paymentReference
                      THEN [Polling EXCEPT !.pc = "verifying",
                                           !.interval = FALSE,
                                           !.inFlight = 0]
                      ELSE Polling]
    /\ UNCHANGED <<prIn, prOut, anIn, anOut, fetch>>
    /\ UNCHANGED aggVars
    /\ UNCHANGED <<clock, encryptionKey, sessions, created, txMetrics, resp,
                   pays, request, dailyTotals>>

\* verify-manual answers: a verified payment shows the success screen and
\* ends the call; anything else (a refusal, a thrown error) goes on to poll
VerifyAnswers ==
    /\ tasks.poll.pc = "verifying"
    /\ \E verified \in BOOLEAN :
          tasks' = [tasks EXCEPT !.poll =
                      IF verified
                      THEN [tasks.poll EXCEPT !.pc = "returned",
                                              !.success = 1]
                      ELSE Polling]
    /\ UNCHANGED <<prIn, prOut, anIn, anOut, fetch>>
    /\ UNCHANGED aggVars
    /\ UNCHANGED <<clock, encryptionKey, sessions, created, txMetrics, resp,
                   pays, request, dailyTotals>>

\* The interval timer fires and checkStatus sends its request
TimerFires ==
    /\ tasks.poll.pc = "polling"
    /\ tasks.poll.interval
    /\ tasks.poll.inFlight < MaxInFlight
    /\ tasks' = [tasks EXCEPT !.poll.inFlight = @ + 1]
    /\ UNCHANGED <<prIn, prOut, anIn, anOut, fetch>>
    /\ UNCHANGED aggVars
    /\ UNCHANGED <<clock, encryptionKey, sessions, created, txMetrics, resp,
                   pays, request, dailyTotals>>

\* A status check is answered and checkStatus runs to its end
CheckAnswers ==
    /\ tasks.poll.pc = "polling"
    /\ tasks.poll.inFlight > 0
    /\ \E status \in StatusAnswers :
          LET poll == tasks.poll
              attempts == poll.attempts + 1
          IN  tasks' = [tasks EXCEPT !.poll =
                 IF status = "completed"
                 THEN [poll EXCEPT !.inFlight = @ - 1, !.interval = FALSE,
                                   !.success = @ + 1]
                 ELSE IF status = "failed"
                 THEN [poll EXCEPT !.inFlight = @ - 1, !.interval = FALSE,
                                   !.failure = @ + 1]
                 ELSE [poll EXCEPT
                          !.inFlight = @ - 1,
                          !.attempts = attempts,
                          !.interval = IF attempts >= MaxAttempts THEN FALSE
                                       ELSE @,
                          !.timeout = IF attempts >= MaxAttempts
                                      THEN @ + 1 ELSE @]]
    /\ UNCHANGED <<prIn, prOut, anIn, anOut, fetch>>
    /\ UNCHANGED aggVars
    /\ UNCHANGED <<clock, encryptionKey, sessions, created, txMetrics, resp,
                   pays, request, dailyTotals>>

NextPoll ==
    \/ PollStart
    \/ VerifyAnswers
    \/ TimerFires
    \/ CheckAnswers

SpecPoll == InitPricing /\ [][NextPoll]_vars

\* C39: pollPaymentStatus shows the success or the failure screen at most
\* once, also when several status checks are awaiting their answer at the
\* same time.
C39_OneScreen ==
    tasks.poll.pc # "idle" => tasks.poll.success + tasks.poll.failure <= 1

(***************************************************************************)
(* SpecCleanup: cleanupExpiredSessions over a store of two sessions that   *)
(* are created, initialized and verified by whole requests while time      *)
(* passes.  The server starts at time 0.                                   *)
(***************************************************************************)
CleanIds == {"s1", "s2"}

\* createTransactionSession for a quote of 200000 NGN at the primary rate:
\* the record is set with expiresAt = Date.now() + sessionTTL and counted;
\* elapsed is the time between its two Date.now() calls.  A set() the
\* store rejects leaves nothing behind.
CreateSession(id) ==
    /\ ~exists(id)
    /\ created[id] = None
    /\ \E elapsed \in {0, MaxElapsed}, storeUp \in BOOLEAN :
          LET competitive == calculateCompetitiveRate(100, 1470, Null, 0, 0)
              amount == 200000
              tx == transactionData(amount, competitive)
              userDetails == [customerName |-> "Anonymous",
                              email |-> "none", phone |-> "none"]
              timestamp == clock
              expiresAt == clock + elapsed + sessionTTL
          IN  /\ clock + elapsed <= MaxClock
              /\ keyConfigured
              /\ IF storeUp
                 THEN /\ clock' = clock + elapsed
                      /\ sessions' =
                            [sessions EXCEPT
                                ![id] = sessionData(tx, userDetails, timestamp,
                                                    expiresAt)]
                      /\ txMetrics' = [txMetrics EXCEPT !.total = @ + 1,
                                                        !.pending = @ + 1]
                      /\ created' =
                            [created EXCEPT
                                ![id] = [kind |-> "created",
                                         amount |-> amount,
                                         competitive |-> competitive,
                                         timestamp |-> timestamp,
                                         expiresAt |-> expiresAt]]
                 ELSE UNCHANGED <<clock, sessions, txMetrics, created>>
    /\ UNCHANGED <<prIn, prOut, anIn, anOut, fetch>>
    /\ UNCHANGED aggVars
    /\ UNCHANGED <<encryptionKey, tasks, resp, pays, request, dailyTotals>>

\* setInterval(cleanupExpiredSessions, 10 * 60 * 1000)
cleanupEvery == 600000

\* One run of cleanupExpiredSessions, started by the timer: the query, the
\* multi-path update that deletes what the query gave, and the count
\* returned.  A query or an update the store rejects ends in the catch
\* block.
CleanupRun ==
    /\ clock >= cleanupEvery + (IF tasks.cleanup.pc = "idle" THEN 0
                                ELSE tasks.cleanup.at)
    /\ \E queryUp \in BOOLEAN, updateUp \in BOOLEAN :
          LET expiredSessions ==
                  {id \in DOMAIN sessions :
                      exists(id) /\ isExpiredAt(sessions[id], clock)}
              failed == ~queryUp \/ (expiredSessions # {} /\ ~updateUp)
          IN  /\ sessions' =
                     IF failed THEN sessions
                     ELSE [id \in DOMAIN sessions |->
                              IF id \in expiredSessions THEN NoSession
                              ELSE sessions[id]]
              /\ tasks' = [tasks EXCEPT !.cleanup =
                              [pc |-> "ran", at |-> clock, failed |-> failed,
                               found |-> {sessions[id].status :
                                             id \in expiredSessions},
                               count |-> IF failed THEN 0
                                         ELSE Cardinality(expiredSessions)]]
    /\ UNCHANGED <<prIn, prOut, anIn, anOut, fetch>>
    /\ UNCHANGED aggVars
    /\ UNCHANGED <<clock, encryptionKey, created, txMetrics, resp, pays,
                   request, dailyTotals>>

InitCleanup ==
    /\ PricingIdle
    /\ AnalyzeIdle
    /\ AggregatorIdle
    /\ fetch = FetchIdle
    /\ clock = 0
    /\ encryptionKey = "secret"
    /\ sessions = [id \in CleanIds |-> NoSession]
    /\ created = [id \in CleanIds |-> None]
    /\ txMetrics = NoTransactions
    /\ resp = NoResponse
    /\ pays = NoPayments
    /\ request = None
    /\ dailyTotals = NoTotals
    /\ tasks = NoTasks

NextCleanup ==
    \/ \E id \in CleanIds : CreateSession(id)
    \/ \E id \in CleanIds : Initialize(id)
    \/ \E id \in CleanIds : VerifyManual(id)
    \/ ClockTick
    \/ CleanupRun

SpecCleanup == InitCleanup /\ [][NextCleanup]_vars

\* C40: a run of cleanupExpiredSessions deletes every session whose
\* expiresAt is at or before the time of the run, whatever its status, and
\* leaves every session with a later expiresAt as it was; a run the store
\* fails deletes nothing and returns 0.
C40_CleanupDeletesExpired ==
    [][tasks'.cleanup # tasks.cleanup
          => IF tasks'.cleanup.failed
             THEN sessions' = sessions /\ tasks'.cleanup.count = 0
             ELSE \A id \in DOMAIN sessions :
                     exists(id) /\ sessions[id].expiresAt # Null
                        => IF sessions[id].expiresAt <= clock
                           THEN sessions'[id] = NoSession
                           ELSE sessions'[id] = sessions[id]]_vars

\* A run at the very time a completed session expires deleted it and left
\* the other session, which expires later
C40_DeletedAtExpiry ==
    /\ tasks.cleanup.pc = "ran"
    /\ ~tasks.cleanup.failed
    /\ tasks.cleanup.count = 1
    /\ tasks.cleanup.found = {"completed"}
    /\ created["s1"] # None
    /\ created["s1"].expiresAt = tasks.cleanup.at
    /\ ~exists("s1")
    /\ exists("s2")
    /\ sessions["s2"].expiresAt > tasks.cleanup.at

\* A run the store failed found an expired session and left it in place
C40_FailedRunKeptAll ==
    /\ tasks.cleanup.pc = "ran"
    /\ tasks.cleanup.failed
    /\ tasks.cleanup.count = 0
    /\ tasks.cleanup.at = clock
    /\ \E id \in CleanIds :
          exists(id) /\ isExpiredAt(sessions[id], clock)

====
